---- MODULE Spec2Model ----
(***************************************************************************)
(* A model of the PSyclone intermediate-representation core: the symbolic  *)
(* maths singleton, the dependency tools, symbols and their tables, the    *)
(* PSyIR node tree and the transformations that rewrite it.                *)
(*                                                                         *)
(* Every component has its own specification (SpecMaths, SpecDep, ...);    *)
(* all of them range over the same variables, and a component's actions    *)
(* leave the other components' variables alone.                            *)
(***************************************************************************)
EXTENDS Integers, Sequences, FiniteSets, TLC

VARIABLES
    sm_instance,    \* SymbolicMaths._instance: None or an object reference
    sm_heap,        \* the engine objects created so far: reference -> class
    sm_gets,        \* history: what each SymbolicMaths.get() call returned
    sm_ret,         \* the last call on the engine and what it gave
    dt_var_info,    \* the SingleVariableAccessInfo under analysis
    dt_loop_variable, \* the name of the variable that is parallelised
    dt_messages,    \* DependencyTools._messages
    dt_ret,         \* the last DependencyTools call and what it returned
    sy_ifaces,      \* the SymbolInterface objects: reference -> fields
    sy_symbols,     \* the Symbol objects: reference -> fields
    sy_table,       \* a routine's SymbolTable: its symbols in insertion order
    sy_origin,      \* per container name: the Container and its SymbolTable
    sy_ret,         \* the last symbol operation and what it returned
    tr_nodes,       \* the Node objects: reference -> kind, parent, children
    tr_ret,         \* the last node operation and how it ended
    tx_nodes,       \* the tree a transformation is applied to: its Node objects
    tx_symbols,     \* the symbol table of that tree's schedule
    tx_files,       \* the driver programs written so far
    tx_applied,     \* how many apply calls have been made
    tx_ret,         \* the last apply call: its arguments and how it ended
    lp_nodes,       \* the tree a DependencyTools object analyses: its Node objects
    lp_loop_types,  \* DependencyTools._loop_types_to_parallelise of that object
    lp_messages,    \* DependencyTools._messages of that object
    lp_calls,       \* how many calls have been made on that object
    lp_ret,         \* the last call on that object and what it returned
    sw_skip_nodes,  \* SIRWriter._skip_nodes
    sw_hash_order,  \* the order in which the sets of this process iterate
    sw_depth,       \* SIRWriter._depth
    sw_field_names, \* SIRWriter._field_names
    sw_fields,      \* SIRWriter._fields
    sw_scalar_names, \* SIRWriter._scalar_names
    sw_scalars,     \* SIRWriter._scalars
    sw_nodes,       \* the tree of the last call of the writer
    sw_calls,       \* how many calls the writer has served
    sw_ret          \* what the last call of the writer returned or raised

sm_vars == <<sm_instance, sm_heap, sm_gets, sm_ret>>

dt_vars == <<dt_var_info, dt_loop_variable, dt_messages, dt_ret>>

sy_vars == <<sy_ifaces, sy_symbols, sy_table, sy_origin, sy_ret>>

tr_vars == <<tr_nodes, tr_ret>>

tx_vars == <<tx_nodes, tx_symbols, tx_files, tx_applied, tx_ret>>

lp_vars == <<lp_nodes, lp_loop_types, lp_messages, lp_calls, lp_ret>>

sw_vars ==
    <<sw_skip_nodes, sw_hash_order, sw_depth, sw_field_names, sw_fields,
      sw_scalar_names, sw_scalars, sw_nodes, sw_calls, sw_ret>>

vars == <<sm_vars, dt_vars, sy_vars, tr_vars, tx_vars, lp_vars, sw_vars>>

\* What the actions of one component leave alone: the other components.
sm_rest == <<dt_vars, sy_vars, tr_vars, tx_vars, lp_vars, sw_vars>>
dt_rest == <<sm_vars, sy_vars, tr_vars, tx_vars, lp_vars, sw_vars>>
sy_rest == <<sm_vars, dt_vars, tr_vars, tx_vars, lp_vars, sw_vars>>
tr_rest == <<sm_vars, dt_vars, sy_vars, tx_vars, lp_vars, sw_vars>>
tx_rest == <<sm_vars, dt_vars, sy_vars, tr_vars, lp_vars, sw_vars>>
lp_rest == <<sm_vars, dt_vars, sy_vars, tr_vars, tx_vars, sw_vars>>
sw_rest == <<sm_vars, dt_vars, sy_vars, tr_vars, tx_vars, lp_vars>>

\* Python's None where an object reference is expected.
None == 0

\* Python's None where a name, a type or an enumeration value is expected.
NoneStr == "None"

(***************************************************************************)
(* Bounds of the model.                                                    *)
(***************************************************************************)
\* How many SymbolicMaths.get() calls a behaviour records.
MaxGets == 4
\* Integer literals that expressions handed to the engine are built from.
MaxLit == 2
\* How many accesses the analysed variable has at most.
MaxAcc == 2
\* How many messages a DependencyTools object collects before the model stops
\* calling it.
MaxMsgs == 2
\* How many apply calls a behaviour makes at most.
MaxApplies == 2
\* How many Node objects a behaviour creates at most.
MaxNodes == 5
\* How many symbols the routine's symbol table holds at most.
MaxSymbols == 2
\* How many symbols resolve_deferred creates at most in one behaviour.
MaxResolved == 1
\* How many Symbol objects a behaviour that works on interfaces creates at
\* most, and how many interface assignments and access changes it makes.
MaxSymbolObjects == 2
MaxInterfaceOps == 2
\* Invokes written directly in the body of one algorithm routine.
MaxDirectInvokes == 2
\* How many accesses the statement inside an analysed loop nest makes at most.
MaxLoopAcc == 2
\* How many calls a behaviour makes on the DependencyTools object that
\* analyses a tree.
MaxLoopCalls == 2
\* How many calls a behaviour makes on one SIRWriter.
MaxEmits == 2

(***************************************************************************)
(* core/symbolic_maths.py                                                  *)
(***************************************************************************)

\* The expressions handed to the engine: None, an integer literal, or the
\* free variable i.
SmExprs == {[k |-> "none"], [k |-> "var"]} \cup {[k |-> "lit", n |-> n] : n \in 0..MaxLit}

\* The methods each engine class defines.
Methods(cls) ==
    CASE cls = "SymbolicMathsSympy"  -> {"greater_than", "greater_equal"}
      [] cls = "SymbolicMathsSimple" -> {"greater_than", "greater_equal"}

\* bool(obj) of an engine object: the classes define neither __bool__ nor
\* __len__, so every object is true and only None is false.
Truthy(ref) == ref # None

\* SymbolicMathsSympy.greater_than: sympy.simplify(e1 > e2) on the Fortran
\* text of the two expressions.  Two literals give a Boolean, i > i is
\* false, anything else stays an unevaluated relation; None has no text.
Sympy_greater_than(e1, e2) ==
    IF e1.k = "none" \/ e2.k = "none" THEN "VisitorError"
    ELSE IF e1.k = "lit" /\ e2.k = "lit" THEN (IF e1.n > e2.n THEN "True" ELSE "False")
    ELSE IF e1.k = "var" /\ e2.k = "var" THEN "False"
    ELSE "Relational"

\* SymbolicMathsSympy.greater_equal: sympy.simplify(e1 >= e2).
Sympy_greater_equal(e1, e2) ==
    IF e1.k = "none" \/ e2.k = "none" THEN "VisitorError"
    ELSE IF e1.k = "lit" /\ e2.k = "lit" THEN (IF e1.n >= e2.n THEN "True" ELSE "False")
    ELSE IF e1.k = "var" /\ e2.k = "var" THEN "True"
    ELSE "Relational"

\* SymbolicMathsSimple.greater_than and greater_equal.
Simple_greater_than(e1, e2) == "True"

Simple_greater_equal(e1, e2) == "True"

\* obj.m(e1, e2): Python's attribute lookup, then the method of the class.
CallMethod(cls, m, e1, e2) ==
    IF m \notin Methods(cls) THEN "AttributeError"
    ELSE CASE cls = "SymbolicMathsSympy" /\ m = "greater_than"   -> Sympy_greater_than(e1, e2)
           [] cls = "SymbolicMathsSympy" /\ m = "greater_equal"  -> Sympy_greater_equal(e1, e2)
           [] cls = "SymbolicMathsSimple" /\ m = "greater_than"  -> Simple_greater_than(e1, e2)
           [] cls = "SymbolicMathsSimple" /\ m = "greater_equal" -> Simple_greater_equal(e1, e2)

(***************************************************************************)
(* psyir/tools/dependency_tools.py                                         *)
(***************************************************************************)

\* An index expression is a sum of terms c*v, written in source order; the
\* term of a literal has v = "".
Term(v, c) == [v |-> v, c |-> c]

Ej   == <<Term("j", 1)>>
Ejm1 == <<Term("j", 1), Term("", -1)>>
Em1j == <<Term("", -1), Term("j", 1)>>
Ei   == <<Term("i", 1)>>
E1   == <<Term("", 1)>>

IndexExprs == {Ej, Ejm1, Em1j, Ei, E1}

\* The `indices` of one access: per component of the signature, the list of
\* its index expressions.  A scalar access has one component and no index.
IndexLists ==
    {<< <<>> >>}
    \cup {<< <<e>> >> : e \in IndexExprs}
    \cup {<< <<e1, e2>> >> : e1 \in {Ei, Ej, E1}, e2 \in {Ei, Ej, E1}}
    \cup {<< <<e1>>, <<e2>> >> : e1 \in {Ei, Ej}, e2 \in {Ei, Ej}}
    \cup {<< <<Ej, Ejm1>> >>, << <<Ejm1, Ei>> >>}

AccessTypes == {"READ", "WRITE", "READWRITE"}

Accesses == [access_type : AccessTypes, indices : IndexLists]

\* The access lists a variable can have, in execution order.
AccessSeqs == UNION {[1..n -> Accesses] : n \in 1..MaxAcc}

LoopVariables == {"i", "j"}

\* index_expression.reference_accesses(accesses): the variables the
\* expression reads.
reference_accesses(e) == {e[k].v : k \in 1..Len(e)} \ {""}

\* The coefficient of variable v in expression e.
RECURSIVE Coef(_, _, _)
Coef(e, v, k) ==
    IF k > Len(e) THEN 0
    ELSE (IF e[k].v = v THEN e[k].c ELSE 0) + Coef(e, v, k + 1)

\* first_index.math_equal(index): the two expressions denote the same value.
math_equal(e1, e2) ==
    \A v \in {"", "i", "j"} : Coef(e1, v, 1) = Coef(e2, v, 1)

\* var_info.is_read_only(): no access writes the variable.
is_read_only(var_info) ==
    \A k \in 1..Len(var_info.all_accesses) :
        var_info.all_accesses[k].access_type \notin {"WRITE", "READWRITE"}

_add_info(messages, m) == Append(messages, [sev |-> "Info"] @@ m)

_add_warning(messages, m) == Append(messages, [sev |-> "Warning"] @@ m)

_add_error(messages, m) == Append(messages, [sev |-> "Error"] @@ m)

\* The (component_index, dimension_index, index_expression) triples of the
\* three nested loops of is_array_parallelisable, in the order they are
\* visited.  The indices are 0-based, as enumerate() counts.
RECURSIVE DimTriples(_, _, _)
DimTriples(comps, c, d) ==
    IF c > Len(comps) THEN <<>>
    ELSE IF d > Len(comps[c]) THEN DimTriples(comps, c + 1, 1)
    ELSE << [pair |-> <<c - 1, d - 1>>, expr |-> comps[c][d]] >>
         \o DimTriples(comps, c, d + 1)

RECURSIVE AllTriples(_, _)
AllTriples(accesses, k) ==
    IF k > Len(accesses) THEN <<>>
    ELSE DimTriples(accesses[k].indices, 1, 1) \o AllTriples(accesses, k + 1)

\* The body of the loops over all accesses (lines 175-212): `found` is
\* found_dimension_index, `all_indices` the expressions collected so far.
RECURSIVE ScanIndices(_, _, _, _, _)
ScanIndices(triples, k, loop_variable, found, all_indices) ==
    IF k > Len(triples)
    THEN [clash |-> FALSE, found |-> found, all_indices |-> all_indices]
    ELSE IF loop_variable \notin reference_accesses(triples[k].expr)
    THEN ScanIndices(triples, k + 1, loop_variable, found, all_indices)
    ELSE IF found[1] > -1 /\ found # triples[k].pair
    THEN [clash |-> TRUE, found |-> found, ind_pair |-> triples[k].pair,
          all_indices |-> all_indices]
    ELSE ScanIndices(triples, k + 1, loop_variable, triples[k].pair,
                     Append(all_indices, triples[k].expr))

\* The first index of all_indices[1:] that is not math_equal to
\* all_indices[0] (lines 245-255), 0 when there is none.
RECURSIVE FirstUnequal(_, _)
FirstUnequal(all_indices, k) ==
    IF k > Len(all_indices) THEN 0
    ELSE IF ~ math_equal(all_indices[1], all_indices[k]) THEN k
    ELSE FirstUnequal(all_indices, k + 1)

\* is_array_parallelisable without the read-only test of lines 159-160.
is_array_parallelisable_no_read_only(loop_variable, var_info, messages) ==
    LET scan == ScanIndices(AllTriples(var_info.all_accesses, 1), 1,
                            loop_variable, <<-1, -1>>, <<>>)
    IN  IF scan.all_indices = <<>>
        THEN [ret |-> FALSE,
              messages |-> _add_warning(messages,
                  [msg |-> "written_not_dependent", var |-> var_info.var_name,
                   loop_variable |-> loop_variable])]
        ELSE [ret |-> TRUE, messages |-> messages]

\* is_array_parallelisable without the comparison of lines 245-255.
is_array_parallelisable_no_math_equal(loop_variable, var_info, messages) ==
    IF is_read_only(var_info) THEN [ret |-> TRUE, messages |-> messages]
    ELSE
    LET scan == ScanIndices(AllTriples(var_info.all_accesses, 1), 1,
                            loop_variable, <<-1, -1>>, <<>>)
    IN  IF scan.clash
        THEN [ret |-> FALSE,
              messages |-> _add_warning(messages,
                  [msg |-> "different_index", var |-> var_info.var_name,
                   loop_variable |-> loop_variable,
                   first |-> scan.found, second |-> scan.ind_pair])]
        ELSE IF scan.all_indices = <<>>
        THEN [ret |-> FALSE,
              messages |-> _add_warning(messages,
                  [msg |-> "written_not_dependent", var |-> var_info.var_name,
                   loop_variable |-> loop_variable])]
        ELSE [ret |-> TRUE, messages |-> messages]

\* DependencyTools.is_array_parallelisable(loop_variable, var_info): the
\* returned value and the message list after the call.
is_array_parallelisable(loop_variable, var_info, messages) ==
    IF is_read_only(var_info) THEN [ret |-> TRUE, messages |-> messages]
    ELSE
    LET scan == ScanIndices(AllTriples(var_info.all_accesses, 1), 1,
                            loop_variable, <<-1, -1>>, <<>>)
        uneq == FirstUnequal(scan.all_indices, 2)
    IN  IF scan.clash
        THEN [ret |-> FALSE,
              messages |-> _add_warning(messages,
                  [msg |-> "different_index", var |-> var_info.var_name,
                   loop_variable |-> loop_variable,
                   first |-> scan.found, second |-> scan.ind_pair])]
        ELSE IF scan.all_indices = <<>>
        THEN [ret |-> FALSE,
              messages |-> _add_warning(messages,
                  [msg |-> "written_not_dependent", var |-> var_info.var_name,
                   loop_variable |-> loop_variable])]
        ELSE IF uneq # 0
        THEN [ret |-> FALSE,
              messages |-> _add_warning(messages,
                  [msg |-> "written_with_indices", var |-> var_info.var_name,
                   first |-> scan.all_indices[1],
                   second |-> scan.all_indices[uneq]])]
        ELSE [ret |-> TRUE, messages |-> messages]

\* is_scalar_parallelisable without the single-access test of lines 274-283.
is_scalar_parallelisable_no_single(var_info, messages) ==
    IF is_read_only(var_info) THEN [ret |-> TRUE, messages |-> messages]
    ELSE IF var_info.all_accesses[1].access_type = "WRITE"
    THEN [ret |-> TRUE, messages |-> messages]
    ELSE [ret |-> FALSE,
          messages |-> _add_warning(messages,
              [msg |-> "read_first_reduction", var |-> var_info.var_name])]

\* is_scalar_parallelisable that accepts every first access other than READ.
is_scalar_parallelisable_not_read_first(var_info, messages) ==
    IF is_read_only(var_info) THEN [ret |-> TRUE, messages |-> messages]
    ELSE IF Len(var_info.all_accesses) = 1
    THEN [ret |-> FALSE,
          messages |-> _add_warning(messages,
              [msg |-> "written_once", var |-> var_info.var_name])]
    ELSE IF var_info.all_accesses[1].access_type # "READ"
    THEN [ret |-> TRUE, messages |-> messages]
    ELSE [ret |-> FALSE,
          messages |-> _add_warning(messages,
              [msg |-> "read_first_reduction", var |-> var_info.var_name])]

\* DependencyTools.is_scalar_parallelisable(var_info).
is_scalar_parallelisable(var_info, messages) ==
    IF is_read_only(var_info) THEN [ret |-> TRUE, messages |-> messages]
    ELSE IF Len(var_info.all_accesses) = 1
    THEN [ret |-> FALSE,
          messages |-> _add_warning(messages,
              [msg |-> "written_once", var |-> var_info.var_name])]
    ELSE IF var_info.all_accesses[1].access_type = "WRITE"
    THEN [ret |-> TRUE, messages |-> messages]
    ELSE [ret |-> FALSE,
          messages |-> _add_warning(messages,
              [msg |-> "read_first_reduction", var |-> var_info.var_name])]

\* DependencyTools._clear_messages
_clear_messages == <<>>

\* DependencyTools.get_all_messages
get_all_messages == dt_messages

\* par_able = dep_tools.is_array_parallelisable(loop_variable, var_info)
DtIsArrayParallelisable ==
    /\ Len(dt_messages) < MaxMsgs
    /\ LET r == is_array_parallelisable(dt_loop_variable, dt_var_info, dt_messages)
       IN /\ dt_messages' = r.messages
          /\ dt_ret' = [op |-> "is_array_parallelisable", ret |-> r.ret,
                        before |-> dt_messages]
    /\ UNCHANGED <<dt_var_info, dt_loop_variable>>
    /\ UNCHANGED dt_rest

\* par_able = dep_tools.is_scalar_parallelisable(var_info)
DtIsScalarParallelisable ==
    /\ Len(dt_messages) < MaxMsgs
    /\ LET r == is_scalar_parallelisable(dt_var_info, dt_messages)
       IN /\ dt_messages' = r.messages
          /\ dt_ret' = [op |-> "is_scalar_parallelisable", ret |-> r.ret,
                        before |-> dt_messages]
    /\ UNCHANGED <<dt_var_info, dt_loop_variable>>
    /\ UNCHANGED dt_rest

\* DependencyTools.__init__, and the access information handed to it.
DtInit ==
    /\ dt_var_info \in [var_name : {"a"}, all_accesses : AccessSeqs]
    /\ dt_loop_variable \in LoopVariables
    /\ dt_messages = _clear_messages
    /\ dt_ret = [op |-> "none"]

\* The state of a DependencyTools object nobody calls.
DtIdle ==
    /\ dt_var_info = [var_name |-> "a", all_accesses |-> <<>>]
    /\ dt_loop_variable = "i"
    /\ dt_messages = <<>>
    /\ dt_ret = [op |-> "none"]

DtNext ==
    \/ DtIsArrayParallelisable
    \/ DtIsScalarParallelisable

(***************************************************************************)
(* psyir/symbols/symbol.py, and the SymbolTable that holds the symbols     *)
(***************************************************************************)

\* A name is a root and the number new_unique_name appended to it: idx 0 is
\* the root itself, idx n is "<root>_<n>".
Name(root, idx) == [root |-> root, idx |-> idx]

\* Symbol.Visibility
Visibilities == {"PUBLIC", "PRIVATE"}

\* Symbol.DEFAULT_VISIBILITY
DEFAULT_VISIBILITY == "PUBLIC"

\* ArgumentInterface.Access
ArgumentAccess == {"READ", "WRITE", "READWRITE", "UNKNOWN"}

\* LocalInterface(), UnresolvedInterface(), GlobalInterface(container_symbol)
\* and ArgumentInterface(access): the fields of a new interface object.
LocalInterface == [kind |-> "Local"]

UnresolvedInterface == [kind |-> "Unresolved"]

GlobalInterface(container_symbol) ==
    [kind |-> "Global", container_symbol |-> container_symbol]

ArgumentInterface(access) ==
    [kind |-> "Argument",
     access |-> IF access = NoneStr THEN "UNKNOWN" ELSE access,
     pass_by_value |-> FALSE]

\* Symbol.is_local, is_global, is_argument, is_unresolved
is_local(ifaces, sym) == ifaces[sym.interface].kind = "Local"

is_global(ifaces, sym) == ifaces[sym.interface].kind = "Global"

is_argument(ifaces, sym) == ifaces[sym.interface].kind = "Argument"

is_unresolved(ifaces, sym) == ifaces[sym.interface].kind = "Unresolved"

\* type(self)(name, *args, visibility=..., interface=...): the fields of a
\* new symbol object.  `interface` is a reference to an interface object.
NewSymbolObject(cls, name, datatype, visibility, interface) ==
    [cls |-> cls, name |-> name, datatype |-> datatype,
     visibility |-> visibility, interface |-> interface]

\* Symbol._base_copy(args, kwargs, interface, visibility), with the
\* subclass's positional arguments (the datatype) taken from self.  None
\* for interface or visibility keeps self's own.
_base_copy(self, interface, visibility) ==
    NewSymbolObject(self.cls, self.name, self.datatype,
                    IF visibility # NoneStr THEN visibility ELSE self.visibility,
                    IF interface # None THEN interface ELSE self.interface)

\* Symbol.copy(interface=None, visibility=None)
copy(self, interface, visibility) == _base_copy(self, interface, visibility)

\* The names of the symbols a table holds.
TableNames(symbols, table) == {symbols[table[k]].name : k \in 1..Len(table)}

\* SymbolTable.lookup(name, visibility=...) on a table without ancestors:
\* the reference of the symbol, KeyError when the table has no symbol of
\* that name, SymbolError when the symbol has another visibility.
lookup(symbols, table, name, visibility) ==
    LET hits == {k \in 1..Len(table) : symbols[table[k]].name = name}
    IN  IF hits = {} THEN [err |-> "KeyError"]
        ELSE LET ref == table[CHOOSE k \in hits : \A h \in hits : k <= h]
             IN IF visibility # NoneStr /\ symbols[ref].visibility # visibility
                THEN [err |-> "SymbolError"]
                ELSE [err |-> "none", ref |-> ref]

\* resolve_deferred that copies the external symbol as it is.
resolve_deferred_plain_copy(ifaces, symbols, origin, self) ==
    IF is_global(ifaces, symbols[self])
    THEN LET module == ifaces[symbols[self].interface].container_symbol
         IN IF ~ origin[module].found THEN [err |-> "SymbolError"]
            ELSE LET found == lookup(symbols, origin[module].symbol_table,
                                     symbols[self].name, "PUBLIC")
                 IN IF found.err # "none" THEN [err |-> "SymbolError"]
                    ELSE [err |-> "none", ref |-> Len(symbols) + 1,
                          symbols |-> Append(symbols,
                              copy(symbols[found.ref], None, NoneStr))]
    ELSE [err |-> "none", ref |-> self, symbols |-> symbols]

\* Symbol.resolve_deferred(): the error raised or the reference returned,
\* and the symbol objects that exist after the call.  A container whose
\* module cannot be found raises SymbolError from module.container.
resolve_deferred(ifaces, symbols, origin, self) ==
    IF is_global(ifaces, symbols[self])
    THEN LET module == ifaces[symbols[self].interface].container_symbol
         IN IF ~ origin[module].found THEN [err |-> "SymbolError"]
            ELSE LET found == lookup(symbols, origin[module].symbol_table,
                                     symbols[self].name, "PUBLIC")
                 IN IF found.err # "none" THEN [err |-> "SymbolError"]
                    ELSE [err |-> "none", ref |-> Len(symbols) + 1,
                          symbols |-> Append(symbols,
                              copy(symbols[found.ref],
                                   symbols[self].interface,
                                   symbols[self].visibility))]
    ELSE [err |-> "none", ref |-> self, symbols |-> symbols]

\* new_unique_name that hands out the root name as it is.
new_unique_name_root_only(names, root) == Name(root, 0)

\* SymbolTable.new_unique_name(root): root if free, else root_1, root_2, ...
new_unique_name(names, root) ==
    IF Name(root, 0) \notin names THEN Name(root, 0)
    ELSE Name(root, CHOOSE n \in 1..(Cardinality(names) + 1) :
                        /\ Name(root, n) \notin names
                        /\ \A m \in 1..(n - 1) : Name(root, m) \in names)

\* The kinds of symbol the model declares: class, datatype and interface.
SymbolShapes ==
    {[cls |-> "DataSymbol", datatype |-> "REAL", interface |-> LocalInterface],
     [cls |-> "DataSymbol", datatype |-> "REAL",
      interface |-> ArgumentInterface("READWRITE")],
     [cls |-> "Symbol", datatype |-> NoneStr,
      interface |-> GlobalInterface("some_mod")],
     [cls |-> "Symbol", datatype |-> NoneStr,
      interface |-> GlobalInterface("missing_mod")]}

DeclaredNames == {Name("x", 0), Name("arg", 0), Name("arg", 1)}

\* The root names given to new_symbol; without a root name the table uses
\* "psyir_tmp".
RootNames == {"arg", NoneStr}

\* symbol_table.declare(name, ...): a new symbol of that name is added; a
\* name the table already holds is a name collision and nothing changes.
SyDeclare(name, shape, visibility) ==
    /\ IF name \in TableNames(sy_symbols, sy_table)
       THEN /\ sy_ret' = [op |-> "declare", name |-> name, err |-> "KeyError",
                          before |-> sy_table]
            /\ UNCHANGED <<sy_ifaces, sy_symbols, sy_table>>
       ELSE /\ Len(sy_table) < MaxSymbols
            /\ sy_ifaces' = Append(sy_ifaces, shape.interface)
            /\ sy_symbols' = Append(sy_symbols,
                   NewSymbolObject(shape.cls, name, shape.datatype, visibility,
                                   Len(sy_ifaces) + 1))
            /\ sy_table' = Append(sy_table, Len(sy_symbols) + 1)
            /\ sy_ret' = [op |-> "declare", name |-> name, err |-> "none",
                          ref |-> Len(sy_symbols) + 1, before |-> sy_table]
    /\ UNCHANGED sy_origin
    /\ UNCHANGED sy_rest

\* symbol_table.new_symbol(root, symbol_type=..., ...): a new symbol whose
\* name is new_unique_name(root).
SyNewSymbol(root, shape, visibility) ==
    /\ Len(sy_table) < MaxSymbols
    /\ LET name == new_unique_name(TableNames(sy_symbols, sy_table),
                                   IF root = NoneStr THEN "psyir_tmp" ELSE root)
       IN /\ sy_ifaces' = Append(sy_ifaces, shape.interface)
          /\ sy_symbols' = Append(sy_symbols,
                 NewSymbolObject(shape.cls, name, shape.datatype, visibility,
                                 Len(sy_ifaces) + 1))
          /\ sy_table' = Append(sy_table, Len(sy_symbols) + 1)
          /\ sy_ret' = [op |-> "new_symbol", root |-> root, err |-> "none",
                        ref |-> Len(sy_symbols) + 1, before |-> sy_table]
    /\ UNCHANGED sy_origin
    /\ UNCHANGED sy_rest

\* new_sym = symbol.resolve_deferred() for a symbol of the routine's table.
SyResolveDeferred(k) ==
    /\ k \in 1..Len(sy_table)
    /\ LET self == sy_table[k]
           r == resolve_deferred(sy_ifaces, sy_symbols, sy_origin, self)
       IN IF r.err # "none"
          THEN /\ sy_ret' = [op |-> "resolve_deferred", self |-> self,
                             err |-> r.err]
               /\ UNCHANGED sy_symbols
          ELSE /\ (r.ref # self) =>
                     Len(sy_symbols) < Len(sy_origin["some_mod"].symbol_table)
                                       + Len(sy_table) + MaxResolved
               /\ sy_symbols' = r.symbols
               /\ sy_ret' = [op |-> "resolve_deferred", self |-> self,
                             err |-> "none", ref |-> r.ref]
    /\ UNCHANGED <<sy_ifaces, sy_table, sy_origin>>
    /\ UNCHANGED sy_rest

\* The tables a container "some_mod" can have: it always declares y, and x
\* in one of several ways or not at all.
OriginTables ==
    LET y == NewSymbolObject("DataSymbol", Name("y", 0), "INTEGER", "PUBLIC", 1)
    IN  {<<y>>}
        \cup {<<y, NewSymbolObject("DataSymbol", Name("x", 0), "REAL", v, 2)>> :
                 v \in Visibilities}
        \cup {<<NewSymbolObject("RoutineSymbol", Name("x", 0), NoneStr, "PUBLIC", 1),
               y>>}

\* A routine with an empty symbol table, next to a container some_mod that
\* can be found and a container missing_mod that cannot.
SyInit ==
    /\ sy_symbols \in OriginTables
    /\ sy_ifaces = [k \in 1..Len(sy_symbols) |-> LocalInterface]
    /\ sy_origin = [c \in {"some_mod", "missing_mod"} |->
                      IF c = "some_mod"
                      THEN [found |-> TRUE,
                            symbol_table |-> [k \in 1..Len(sy_symbols) |-> k]]
                      ELSE [found |-> FALSE]]
    /\ sy_table = <<>>
    /\ sy_ret = [op |-> "none"]

\* The symbols of a process that declares nothing.
SyIdle ==
    /\ sy_symbols = <<>>
    /\ sy_ifaces = <<>>
    /\ sy_origin = [c \in {"some_mod", "missing_mod"} |-> [found |-> FALSE]]
    /\ sy_table = <<>>
    /\ sy_ret = [op |-> "none"]

SyNext ==
    \/ \E name \in DeclaredNames, shape \in SymbolShapes, v \in Visibilities :
          SyDeclare(name, shape, v)
    \/ \E root \in RootNames, shape \in SymbolShapes, v \in Visibilities :
          SyNewSymbol(root, shape, v)
    \/ \E k \in 1..MaxSymbols : SyResolveDeferred(k)

\* An instance of the class SymbolInterface itself.
SymbolInterface == [kind |-> "SymbolInterface"]

\* Values that are no interface: None and a string.
NoneValue == [kind |-> "NoneType"]

StrValue == [kind |-> "str"]

\* isinstance(value, SymbolInterface)
is_symbol_interface(value) ==
    value.kind \in {"SymbolInterface", "Local", "Unresolved", "Global", "Argument"}

\* The setter Symbol.interface: the error raised, and the interface objects
\* and symbols after the assignment self.interface = value.  `value` is a
\* new object.
interface_setter(ifaces, symbols, self, value) ==
    IF ~ is_symbol_interface(value)
    THEN [err |-> "TypeError", ifaces |-> ifaces, symbols |-> symbols]
    ELSE [err |-> "none", ifaces |-> Append(ifaces, value),
          symbols |-> [symbols EXCEPT ![self].interface = Len(ifaces) + 1]]

\* Symbol.__init__(name, visibility, interface): the error raised, or the
\* interface objects and symbols with the new symbol as the last one.
Symbol_init(ifaces, symbols, name, visibility, interface) ==
    IF visibility \notin Visibilities
    THEN [err |-> "TypeError", ifaces |-> ifaces, symbols |-> symbols]
    ELSE IF interface = NoneValue
    THEN [err |-> "none", ifaces |-> Append(ifaces, LocalInterface),
          symbols |-> Append(symbols,
              NewSymbolObject("Symbol", name, NoneStr, visibility, Len(ifaces) + 1))]
    ELSE LET set == interface_setter(ifaces,
                        Append(symbols,
                            NewSymbolObject("Symbol", name, NoneStr, visibility, None)),
                        Len(symbols) + 1, interface)
         IN IF set.err # "none"
            THEN [err |-> set.err, ifaces |-> ifaces, symbols |-> symbols]
            ELSE set

\* The setter ArgumentInterface.access: the error raised and the interface
\* objects after interface.access = value.
access_setter(ifaces, interface, value) ==
    IF value \notin {"READ", "WRITE", "READWRITE", "UNKNOWN"}
    THEN [err |-> "TypeError", ifaces |-> ifaces]
    ELSE [err |-> "none", ifaces |-> [ifaces EXCEPT ![interface].access = value]]

\* The interface arguments of the behaviours: None, a string, and a new
\* object of each interface class.
InterfaceValues ==
    {NoneValue, StrValue, SymbolInterface, LocalInterface, UnresolvedInterface,
     GlobalInterface("some_mod"), ArgumentInterface("READ")}

\* sym = Symbol("x", interface=value)
SyConstruct(value) ==
    /\ Len(sy_symbols) < MaxSymbolObjects
    /\ \E r \in {Symbol_init(sy_ifaces, sy_symbols, Name("x", 0),
                             DEFAULT_VISIBILITY, value)} :
          /\ sy_ifaces' = r.ifaces
          /\ sy_symbols' = r.symbols
          /\ sy_ret' = [op |-> "Symbol", self |-> Len(r.symbols), err |-> r.err,
                        value |-> value, count |-> sy_ret.count]
    /\ UNCHANGED <<sy_table, sy_origin>>
    /\ UNCHANGED sy_rest

\* sym.interface = value, for a value that is not None
SySetInterface(self, value) ==
    /\ self \in 1..Len(sy_symbols)
    /\ sy_ret.count < MaxInterfaceOps
    /\ \E r \in {interface_setter(sy_ifaces, sy_symbols, self, value)} :
          /\ sy_ifaces' = r.ifaces
          /\ sy_symbols' = r.symbols
          /\ sy_ret' = [op |-> "interface", self |-> self, err |-> r.err,
                        value |-> value, count |-> sy_ret.count + 1]
    /\ UNCHANGED <<sy_table, sy_origin>>
    /\ UNCHANGED sy_rest

\* new_sym = sym.copy()
SyCopy(self) ==
    /\ self \in 1..Len(sy_symbols)
    /\ Len(sy_symbols) < MaxSymbolObjects
    /\ sy_symbols' = Append(sy_symbols, copy(sy_symbols[self], None, NoneStr))
    /\ sy_ret' = [op |-> "copy", self |-> self, err |-> "none",
                  value |-> NoneValue, count |-> sy_ret.count]
    /\ UNCHANGED <<sy_ifaces, sy_table, sy_origin>>
    /\ UNCHANGED sy_rest

\* sym.interface.access = value, for a symbol with an argument interface
SySetAccess(self, value) ==
    /\ self \in 1..Len(sy_symbols)
    /\ sy_ret.count < MaxInterfaceOps
    /\ is_argument(sy_ifaces, sy_symbols[self])
    /\ \E r \in {access_setter(sy_ifaces, sy_symbols[self].interface, value)} :
          /\ sy_ifaces' = r.ifaces
          /\ sy_ret' = [op |-> "access", self |-> self, err |-> r.err,
                        value |-> [kind |-> value], count |-> sy_ret.count + 1]
    /\ UNCHANGED <<sy_symbols, sy_table, sy_origin>>
    /\ UNCHANGED sy_rest

\* A process that has created no symbol and no container.
SyObjInit ==
    /\ sy_symbols = <<>>
    /\ sy_ifaces = <<>>
    /\ sy_origin = [c \in {"some_mod", "missing_mod"} |-> [found |-> FALSE]]
    /\ sy_table = <<>>
    /\ sy_ret = [op |-> "none", self |-> None, err |-> "none",
                 value |-> NoneValue, count |-> 0]

SyObjNext ==
    \/ \E value \in InterfaceValues : SyConstruct(value)
    \/ \E self \in 1..MaxSymbolObjects,
          value \in InterfaceValues \ {NoneValue} : SySetInterface(self, value)
    \/ \E self \in 1..MaxSymbolObjects : SyCopy(self)
    \/ \E self \in 1..MaxSymbolObjects, value \in {"READ", "WRITE", "str"} :
          SySetAccess(self, value)

\* A get() that builds a new engine on every call.
get_always_new(importable) ==
    LET cls == IF importable THEN "SymbolicMathsSympy" ELSE "SymbolicMathsSimple"
        heap == Append(sm_heap, cls)
    IN [instance |-> Len(heap), heap |-> heap, ret |-> Len(heap)]

\* SymbolicMaths.get(): `importable` is whether `import sympy` succeeds at
\* this call.  Gives the new _instance, the heap and the returned reference.
get(importable) ==
    IF ~ Truthy(sm_instance)
    THEN LET cls == IF importable THEN "SymbolicMathsSympy" ELSE "SymbolicMathsSimple"
             heap == Append(sm_heap, cls)
         IN [instance |-> Len(heap), heap |-> heap, ret |-> Len(heap)]
    ELSE [instance |-> sm_instance, heap |-> sm_heap, ret |-> sm_instance]

\* sym_maths = SymbolicMaths.get()
SmGet(importable) ==
    /\ Len(sm_gets) < MaxGets
    /\ LET g == get(importable)
       IN /\ sm_instance' = g.instance
          /\ sm_heap' = g.heap
          /\ sm_gets' = Append(sm_gets, [ret |-> g.ret, importable |-> importable])
          /\ sm_ret' = [op |-> "get", ret |-> g.ret]
    /\ UNCHANGED sm_rest

\* SymbolicMaths.get().m(e1, e2)
SmCall(importable, m, e1, e2) ==
    /\ Len(sm_gets) < MaxGets
    /\ LET g == get(importable)
       IN /\ sm_instance' = g.instance
          /\ sm_heap' = g.heap
          /\ sm_gets' = Append(sm_gets, [ret |-> g.ret, importable |-> importable])
          /\ sm_ret' = [op |-> m, e1 |-> e1, e2 |-> e2, on |-> g.ret,
                        ret |-> CallMethod(g.heap[g.ret], m, e1, e2)]
    /\ UNCHANGED sm_rest

SmMethodNames == {"equal", "greater_than", "greater_equal"}

SmInit ==
    /\ sm_instance = None
    /\ sm_heap = <<>>
    /\ sm_gets = <<>>
    /\ sm_ret = [op |-> "none"]

\* The state of the singleton in a process that never asks for it.
SmIdle == SmInit

SmNext ==
    \/ \E importable \in BOOLEAN : SmGet(importable)
    \/ \E importable \in BOOLEAN, m \in SmMethodNames, e1 \in SmExprs, e2 \in SmExprs :
          SmCall(importable, m, e1, e2)


(***************************************************************************)
(* PSyIR nodes: Node, its ChildrenList and Loop.create.                    *)
(***************************************************************************)
\* The classes a node of class `kind` is an instance of, besides Node.
Bases(kind) ==
    CASE kind \in {"Literal", "Reference"} -> {kind, "DataNode"}
      [] kind = "ArrayReference" -> {kind, "Reference", "DataNode"}
      [] kind \in {"BinaryOperation", "UnaryOperation"} ->
            {kind, "Operation", "DataNode"}
      [] kind = "Loop" -> {"Loop", "Statement"}
      [] kind \in {"GOLoop", "DynLoop", "NemoLoop"} -> {kind, "Loop", "Statement"}
      [] kind \in {"GOInvokeSchedule", "NemoInvokeSchedule"} -> {kind, "Schedule"}
      [] kind \in {"Assignment", "IfBlock", "GOKern", "LFRicKern", "ExtractNode",
                   "NemoKern", "Return"} ->
            {kind, "Statement"}
      [] kind \in {"Call", "CodeBlock"} -> {kind, "Statement", "DataNode"}
      [] kind = "AlgorithmInvokeCall" -> {kind, "Call", "Statement", "DataNode"}
      [] kind = "Schedule" -> {kind, "ScopingNode"}
      [] kind = "Routine" -> {kind, "Schedule", "ScopingNode"}
      [] kind = "Container" -> {kind, "ScopingNode"}
      [] kind \in {"ACCKernelsDirective", "ACCParallelDirective",
                   "ACCEnterDataDirective", "ACCUpdateDirective"} ->
            {kind, "Directive", "Statement"}
      [] OTHER -> {kind}

isinstance(kind, cls) == kind # NoneStr /\ (cls = "Node" \/ cls \in Bases(kind))

\* _validate_child(position, child) of each node class; child is the class
\* of the candidate ("None" for something that is not a node).
_validate_child(kind, position, child) ==
    CASE isinstance(kind, "Loop") ->
            \/ position \in 0..2 /\ isinstance(child, "DataNode")
            \/ position = 3 /\ isinstance(child, "Schedule")
      [] isinstance(kind, "Schedule") -> isinstance(child, "Statement")
      [] kind = "Assignment" -> position \in 0..1 /\ isinstance(child, "DataNode")
      [] kind = "IfBlock" ->
            \/ position = 0 /\ isinstance(child, "DataNode")
            \/ position \in 1..2 /\ isinstance(child, "Schedule")
      [] kind \in {"ACCKernelsDirective", "ACCParallelDirective", "ExtractNode"} ->
            position = 0 /\ isinstance(child, "Schedule")
      [] kind = "Call" -> isinstance(child, "DataNode")
      [] kind = "OMPGrainsizeClause" -> position = 0 /\ child = "Literal"
      [] OTHER -> FALSE

\* Node.__init__(parent=parent): no children, the parent link as given.
NewNode(kind, parent) ==
    [kind |-> kind, parent |-> parent,
     has_constructor_parent |-> (parent # None), children |-> <<>>]

KindOf(nodes, item) == IF item = None THEN NoneStr ELSE nodes[item].kind

\* ChildrenList._validate_item: may item be child `index` of node?
_validate_item(nodes, node, index, item) ==
    _validate_child(nodes[node].kind, index, KindOf(nodes, item))

\* ChildrenList._check_is_orphan: item has no parent, or only the one its
\* constructor was given, which is this node.
_check_is_orphan(nodes, node, item) ==
    \/ nodes[item].parent = None
    \/ nodes[item].has_constructor_parent /\ nodes[item].parent = node

\* Node.position: the index of the node in its parent's children, -1 when
\* its parent does not list it.
position(nodes, n) ==
    LET p == nodes[n].parent
        ks == IF p = None THEN {}
              ELSE {k \in 1..Len(nodes[p].children) : nodes[p].children[k] = n}
    IN IF ks = {} THEN -1 ELSE (CHOOSE k \in ks : \A j \in ks : k <= j) - 1

InsertAt(seq, index, x) ==
    SubSeq(seq, 1, index) \o <<x>> \o SubSeq(seq, index + 1, Len(seq))

RemoveAt(seq, index) ==
    SubSeq(seq, 1, index) \o SubSeq(seq, index + 2, Len(seq))

TreeError(nodes, err) == [err |-> err, nodes |-> nodes]

\* insert without the orphan check.
insert_no_orphan_check(nodes, node, index, item) ==
    LET children == nodes[node].children
    IN IF ~ _validate_item(nodes, node, index, item)
       THEN TreeError(nodes, "GenerationError")
       ELSE [err |-> "none",
             nodes |-> [nodes EXCEPT ![node].children = InsertAt(children, index, item),
                                     ![item].parent = node,
                                     ![item].has_constructor_parent = FALSE]]

\* node.children.insert(index, item): the item must be valid at index and an
\* orphan, the items it displaces must be valid one position further on.
insert(nodes, node, index, item) ==
    LET children == nodes[node].children
    IN IF ~ _validate_item(nodes, node, index, item)
       THEN TreeError(nodes, "GenerationError")
       ELSE IF ~ _check_is_orphan(nodes, node, item)
       THEN TreeError(nodes, "GenerationError")
       ELSE IF \E k \in (index + 1)..Len(children) :
                  ~ _validate_item(nodes, node, k, children[k])
       THEN TreeError(nodes, "GenerationError")
       ELSE [err |-> "none",
             nodes |-> [nodes EXCEPT ![node].children = InsertAt(children, index, item),
                                     ![item].parent = node,
                                     ![item].has_constructor_parent = FALSE]]

\* pop without the check of the items that move up.
pop_unchecked(nodes, node, index) ==
    [err |-> "none",
     nodes |-> [nodes EXCEPT ![node].children = RemoveAt(@, index),
                             ![nodes[node].children[index + 1]].parent = None,
                             ![nodes[node].children[index + 1]].has_constructor_parent = FALSE]]

\* node.addchild(child): append.
addchild(nodes, node, child) == insert(nodes, node, Len(nodes[node].children), child)

\* node.children.pop(index) / del node.children[index]: the items that move
\* up must be valid at their new position; the item loses its parent link.
pop(nodes, node, index) ==
    LET children == nodes[node].children
        item == children[index + 1]
    IN IF \E k \in (index + 2)..Len(children) :
              ~ _validate_item(nodes, node, k - 2, children[k])
       THEN TreeError(nodes, "GenerationError")
       ELSE [err |-> "none",
             nodes |-> [nodes EXCEPT ![node].children = RemoveAt(children, index),
                                     ![item].parent = None,
                                     ![item].has_constructor_parent = FALSE]]

\* node.detach(): leave the parent's children and clear the parent link.
detach(nodes, n) ==
    IF nodes[n].parent = None THEN [err |-> "none", nodes |-> nodes]
    ELSE IF position(nodes, n) = -1
    THEN [err |-> "none",
          nodes |-> [nodes EXCEPT ![n].parent = None,
                                  ![n].has_constructor_parent = FALSE]]
    ELSE pop(nodes, nodes[n].parent, position(nodes, n))

\* node.replace_with(new): new takes the place of node in its parent.
replace_with(nodes, n, new) ==
    IF new = None THEN TreeError(nodes, "TypeError")
    ELSE IF nodes[n].parent = None \/ position(nodes, n) = -1
    THEN TreeError(nodes, "GenerationError")
    ELSE IF nodes[new].parent # None
    THEN TreeError(nodes, "GenerationError")
    ELSE IF ~ _validate_item(nodes, nodes[n].parent, position(nodes, n), new)
    THEN TreeError(nodes, "GenerationError")
    ELSE [err |-> "none",
          nodes |-> [nodes EXCEPT ![nodes[n].parent].children[position(nodes, n) + 1] = new,
                                  ![new].parent = nodes[n].parent,
                                  ![new].has_constructor_parent = FALSE,
                                  ![n].parent = None,
                                  ![n].has_constructor_parent = FALSE]]

\* node.children = items: every item must be valid at its position and an
\* orphan; the former children are released.
set_children(nodes, node, items) ==
    IF \E k \in 1..Len(items) :
          \/ ~ _validate_item(nodes, node, k - 1, items[k])
          \/ ~ _check_is_orphan(nodes, node, items[k])
    THEN TreeError(nodes, "GenerationError")
    ELSE LET old == {nodes[node].children[k] : k \in 1..Len(nodes[node].children)}
             new == {items[k] : k \in 1..Len(items)}
         IN [err |-> "none",
             nodes |-> [r \in 1..Len(nodes) |->
                          IF r \in new
                          THEN [nodes[r] EXCEPT !.parent = node,
                                                !.has_constructor_parent = FALSE,
                                                !.children = IF r = node THEN items ELSE @]
                          ELSE IF r \in old
                          THEN [nodes[r] EXCEPT !.parent = None,
                                                !.has_constructor_parent = FALSE,
                                                !.children = IF r = node THEN items ELSE @]
                          ELSE IF r = node THEN [nodes[r] EXCEPT !.children = items]
                          ELSE nodes[r]]]

\* Loop.create(variable, start, stop, step, children): a new Loop whose
\* children are start, stop, step and a new Schedule holding `children`.
\* A call that fails leaves its arguments as they were.
Loop_create(nodes, variable_ok, start, stop, step, children) ==
    LET loop == Len(nodes) + 1
        schedule == Len(nodes) + 2
        made == nodes \o <<NewNode("Loop", None), NewNode("Schedule", loop)>>
        body == set_children(made, schedule, children)
        full == set_children(body.nodes, loop, <<start, stop, step, schedule>>)
    IN IF ~ variable_ok THEN TreeError(nodes, "GenerationError")
       ELSE IF body.err # "none" THEN TreeError(nodes, body.err)
       ELSE IF full.err # "none" THEN TreeError(nodes, full.err)
       ELSE full

\* The references of the nodes that exist, and what a caller may pass where
\* a node is expected.
NodeRefs == 1..Len(tr_nodes)

NodeArgs == NodeRefs \cup {None}

\* What a constructor is given as parent=: nothing, or a node of a class that
\* has children.
ParentArgs == {None} \cup {n \in NodeRefs : tr_nodes[n].kind \in {"Loop", "Schedule"}}

\* No node is passed twice in a list of arguments.
Distinct(items) ==
    \A j, k \in 1..Len(items) : (items[j] = items[k] /\ items[j] # None) => j = k

\* The lists a caller passes: empty or one item.
ItemLists == {<<>>} \cup {<<a>> : a \in NodeArgs}

\* kind(parent=parent)
TrNew(kind, parent) ==
    /\ Len(tr_nodes) < MaxNodes
    /\ tr_nodes' = Append(tr_nodes, NewNode(kind, parent))
    /\ tr_ret' = [op |-> "new", err |-> "none"]
    /\ UNCHANGED tr_rest

\* Loop.create(variable, start, stop, step, children)
TrCreate(variable_ok, start, stop, step, children) ==
    /\ Len(tr_nodes) + 2 <= MaxNodes
    /\ Distinct(<<start, stop, step>> \o children)
    /\ LET r == Loop_create(tr_nodes, variable_ok, start, stop, step, children)
       IN /\ tr_nodes' = r.nodes
          /\ tr_ret' = [op |-> "create", err |-> r.err, node |-> Len(tr_nodes) + 1]
    /\ UNCHANGED tr_rest

\* node.children.insert(index, item)
TrInsert(node, index, item) ==
    /\ index \in 0..Len(tr_nodes[node].children)
    /\ LET r == insert(tr_nodes, node, index, item)
       IN /\ tr_nodes' = r.nodes
          /\ tr_ret' = [op |-> "insert", err |-> r.err, parent |-> KindOf(tr_nodes, node),
                        item |-> KindOf(tr_nodes, item), index |-> index]
    /\ UNCHANGED tr_rest

\* node.addchild(child)
TrAddchild(node, child) ==
    /\ LET r == addchild(tr_nodes, node, child)
       IN /\ tr_nodes' = r.nodes
          /\ tr_ret' = [op |-> "addchild", err |-> r.err, parent |-> KindOf(tr_nodes, node),
                        item |-> KindOf(tr_nodes, child),
                        index |-> Len(tr_nodes[node].children)]
    /\ UNCHANGED tr_rest

\* del node.children[index]
TrDelChild(node, index) ==
    /\ index \in 0..(Len(tr_nodes[node].children) - 1)
    /\ LET r == pop(tr_nodes, node, index)
       IN /\ tr_nodes' = r.nodes
          /\ tr_ret' = [op |-> "del", err |-> r.err]
    /\ UNCHANGED tr_rest

\* n.detach()
TrDetach(n) ==
    /\ LET r == detach(tr_nodes, n)
       IN /\ tr_nodes' = r.nodes
          /\ tr_ret' = [op |-> "detach", err |-> r.err, node |-> n,
                        index |-> position(tr_nodes, n)]
    /\ UNCHANGED tr_rest

\* n.replace_with(new)
TrReplaceWith(n, new) ==
    /\ LET r == replace_with(tr_nodes, n, new)
       IN /\ tr_nodes' = r.nodes
          /\ tr_ret' = [op |-> "replace_with", err |-> r.err,
                        parent |-> KindOf(tr_nodes, tr_nodes[n].parent),
                        item |-> KindOf(tr_nodes, new), index |-> position(tr_nodes, n)]
    /\ UNCHANGED tr_rest

\* node.children = items
TrSetChildren(node, items) ==
    /\ LET r == set_children(tr_nodes, node, items)
       IN /\ tr_nodes' = r.nodes
          /\ tr_ret' = [op |-> "set_children", err |-> r.err]
    /\ UNCHANGED tr_rest

\* The nodes a test builds before it assembles a loop: the Literals for
\* start, stop and step, all orphans.
TrInit ==
    /\ tr_nodes = <<NewNode("Literal", None), NewNode("Literal", None),
                    NewNode("Literal", None)>>
    /\ tr_ret = [op |-> "none", err |-> "none"]

\* No node exists.
TrIdle ==
    /\ tr_nodes = <<>>
    /\ tr_ret = [op |-> "none", err |-> "none"]

TrNext ==
    \/ \E kind \in {"Loop", "Schedule"}, parent \in ParentArgs : TrNew(kind, parent)
    \/ \E variable_ok \in BOOLEAN, start \in NodeArgs, stop \in NodeArgs,
          step \in NodeArgs, children \in ItemLists :
          TrCreate(variable_ok, start, stop, step, children)
    \/ \E node \in NodeRefs, index \in 0..MaxNodes, item \in NodeArgs : TrInsert(node, index, item)
    \/ \E node \in NodeRefs, child \in NodeArgs : TrAddchild(node, child)
    \/ \E node \in NodeRefs, index \in 0..MaxNodes : TrDelChild(node, index)
    \/ \E n \in NodeRefs : TrDetach(n)
    \/ \E n \in NodeRefs, new \in NodeArgs : TrReplaceWith(n, new)
    \/ \E node \in NodeRefs, items \in ItemLists : TrSetChildren(node, items)


(***************************************************************************)
(* Walking a tree and collecting the accesses of its nodes.                *)
(***************************************************************************)
\* A node object with the attributes of its class in `info`.
Obj(kind, parent, children, info) ==
    [kind |-> kind, parent |-> parent, has_constructor_parent |-> FALSE,
     children |-> children, info |-> info]

RECURSIVE walk(_, _, _)
RECURSIVE walk_children(_, _, _, _)
\* node.walk(classes): the node and its descendants that are instances of
\* one of the classes, depth first, children left to right.
walk(nodes, n, classes) ==
    (IF \E cls \in classes : isinstance(nodes[n].kind, cls) THEN <<n>> ELSE <<>>)
        \o walk_children(nodes, nodes[n].children, 1, classes)

walk_children(nodes, children, k, classes) ==
    IF k > Len(children) THEN <<>>
    ELSE walk(nodes, children[k], classes) \o walk_children(nodes, children, k + 1, classes)

RECURSIVE ancestor(_, _, _)
\* node.ancestor(cls): the closest node above this one that is a cls.
ancestor(nodes, n, cls) ==
    IF nodes[n].parent = None THEN None
    ELSE IF isinstance(nodes[nodes[n].parent].kind, cls) THEN nodes[n].parent
    ELSE ancestor(nodes, nodes[n].parent, cls)

\* A Signature object, and the string str(signature) gives.
Signature(var_name, is_structure) ==
    [type |-> "Signature", var_name |-> var_name, is_structure |-> is_structure]

str(signature) == [type |-> "str", value |-> signature.var_name]

\* May the attribute be read from the object?  A str has neither
\* is_structure nor var_name.
hasattr(object, attribute) ==
    object.type = "Signature" /\ attribute \in {"is_structure", "var_name"}

\* The accesses a node makes itself, in the order they happen.
reference_accesses_of(node) ==
    IF "accesses" \in DOMAIN node.info THEN node.info.accesses ELSE <<>>

RECURSIVE AccessesOfAll(_, _, _)
AccessesOfAll(nodes, refs, k) ==
    IF k > Len(refs) THEN <<>>
    ELSE reference_accesses_of(nodes[refs[k]]) \o AccessesOfAll(nodes, refs, k + 1)

RECURSIVE VariablesAccessInfo_from(_, _, _)
VariablesAccessInfo_from(nodes, node_list, k) ==
    IF k > Len(node_list) THEN <<>>
    ELSE AccessesOfAll(nodes, walk(nodes, node_list[k], {"Node"}), 1)
            \o VariablesAccessInfo_from(nodes, node_list, k + 1)

\* VariablesAccessInfo(node_list): every access of every node of the list
\* and below, in execution order.
VariablesAccessInfo(nodes, node_list) == VariablesAccessInfo_from(nodes, node_list, 1)

RECURSIVE all_signatures(_)
\* variables_info.all_signatures: each signature once.
all_signatures(variables_info) ==
    IF variables_info = <<>> THEN <<>>
    ELSE LET front == all_signatures(SubSeq(variables_info, 1, Len(variables_info) - 1))
             last == variables_info[Len(variables_info)].signature
         IN IF \E k \in 1..Len(front) : front[k] = last THEN front ELSE Append(front, last)

\* variables_info[signature]: the accesses of one variable.
AccessesTo(variables_info, signature) ==
    SelectSeq(variables_info, LAMBDA access : access.signature = signature)

\* variables_info.is_written(signature)
is_written(variables_info, signature) ==
    \E k \in 1..Len(variables_info) :
        /\ variables_info[k].signature = signature
        /\ variables_info[k].access_type \in {"WRITE", "READWRITE"}

\* get_input_parameters that takes every variable with an access that is
\* not a write, wherever that access is.
get_input_parameters_any_read(variables_info) ==
    LET input_list == SelectSeq(all_signatures(variables_info),
                          LAMBDA signature :
                              \E k \in 1..Len(variables_info) :
                                  /\ variables_info[k].signature = signature
                                  /\ variables_info[k].access_type # "WRITE")
    IN [k \in 1..Len(input_list) |-> str(input_list[k])]

\* DependencyTools.get_input_parameters: str(signature) of every variable
\* whose first access is not a write.
get_input_parameters(variables_info) ==
    LET input_list == SelectSeq(all_signatures(variables_info),
                          LAMBDA signature :
                              AccessesTo(variables_info, signature)[1].access_type # "WRITE")
    IN [k \in 1..Len(input_list) |-> str(input_list[k])]

\* DependencyTools.get_output_parameters: str(signature) of every variable
\* that is written.
get_output_parameters(variables_info) ==
    LET output_list == SelectSeq(all_signatures(variables_info),
                           LAMBDA signature : is_written(variables_info, signature))
    IN [k \in 1..Len(output_list) |-> str(output_list[k])]

\* DependencyTools.get_in_out_parameters(node_list)
get_in_out_parameters(nodes, node_list) ==
    LET variables_info == VariablesAccessInfo(nodes, node_list)
    IN [inputs |-> get_input_parameters(variables_info),
        outputs |-> get_output_parameters(variables_info)]

(***************************************************************************)
(* Transformations: what validate and apply of each one do.                *)
(***************************************************************************)
\* The option keys each transformation knows.
RecognisedOptions(trans) ==
    IF trans = "LFRicExtractTrans"
    THEN {"create_driver", "prefix", "region_name", "post_var_postfix"}
    ELSE {}

\* Transformation.validate(node, options): options with a key the
\* transformation does not know are refused.
Transformation_validate(trans, options) ==
    IF options \subseteq RecognisedOptions(trans) THEN "none" ELSE "TransformationError"

\* What an apply call hands back: how it ended, the tree, the symbol table
\* and the files it leaves behind, and what it did, in order.
Outcome(err, nodes, symbols, files, log) ==
    [err |-> err, nodes |-> nodes, symbols |-> symbols, files |-> files, log |-> log]

\* How a sequence of tree operations ended, and the tree they leave.
Tree(err, nodes, log) == [err |-> err, nodes |-> nodes, log |-> log]

\* A local variable: the value is computed once and named in what follows.
Bind(value, Body(_)) == CHOOSE result \in {Body(v) : v \in {value}} : TRUE

NameSet(symbols) == {symbols.names[k] : k \in 1..Len(symbols.names)}

\* symbol_table.new_symbol(root): a symbol with a name new to the table.
new_symbol(symbols, root) ==
    [symbols EXCEPT !.names = Append(@, new_unique_name(NameSet(symbols), root))]

\* GOceanConstants.SUPPORTED_OFFSETS
SUPPORTED_OFFSETS == {"go_offset_ne", "go_offset_sw", "go_offset_any"}

\* GOConstLoopBoundsTrans.validate: the node must be a GOInvokeSchedule; the
\* options are not looked at.
GOConstLoopBoundsTrans_validate(nodes, node, options) ==
    IF ~ isinstance(nodes[node].kind, "GOInvokeSchedule")
    THEN "TransformationError" ELSE "none"

RECURSIVE UpdateLoopBounds(_, _, _, _, _, _)
\* The body of "for loop in node.walk(GOLoop)", from the k-th loop on.
UpdateLoopBounds(nodes, loops, k, i_stop, j_stop, log) ==
    IF k > Len(loops) THEN Tree("none", nodes, log)
    ELSE
    LET loop == loops[k]
        go_kernels == walk(nodes, loop, {"GOKern"})
        index_offset == IF go_kernels # <<>>
                        THEN nodes[go_kernels[1]].info.index_offset ELSE ""
        stop == IF nodes[loop].info.loop_type = "inner" THEN i_stop ELSE j_stop
        bound(which) == [bound |-> which, index_offset |-> index_offset,
                         loop_type |-> nodes[loop].info.loop_type, stop |-> stop]
        made == nodes \o <<Obj("Reference", None, <<>>, bound("start")),
                           Obj("Reference", None, <<>>, bound("stop"))>>
    IN IF index_offset \notin SUPPORTED_OFFSETS
       THEN Tree("TransformationError", nodes, log)
       ELSE Bind(replace_with(made, nodes[loop].children[1], Len(nodes) + 1),
              LAMBDA lower :
                IF lower.err # "none" THEN Tree(lower.err, nodes, log)
                ELSE Bind(replace_with(lower.nodes, lower.nodes[loop].children[2],
                                       Len(nodes) + 2),
                       LAMBDA upper :
                         IF upper.err # "none"
                         THEN Tree(upper.err, lower.nodes, Append(log, "replace_with"))
                         ELSE UpdateLoopBounds(upper.nodes, loops, k + 1, i_stop, j_stop,
                                  log \o <<"replace_with", "replace_with">>)))

\* GOConstLoopBoundsTrans.apply(node, options)
GOConstLoopBoundsTrans_apply(nodes, symbols, files, node, options) ==
    LET validated == GOConstLoopBoundsTrans_validate(nodes, node, options)
        i_stop == new_unique_name(NameSet(symbols), "istop")
        with_istop == new_symbol(symbols, "istop")
        j_stop == new_unique_name(NameSet(with_istop), "jstop")
        with_jstop == new_symbol(with_istop, "jstop")
        argument_list == symbols.argument_list
        fields == {k \in 1..Len(argument_list) : argument_list[k].datatype = "r2d_field"}
        field == argument_list[CHOOSE k \in fields : \A h \in fields : k <= h].name
        made == nodes \o
            <<Obj("Assignment", None, <<>>, [lhs |-> i_stop, rhs |-> <<field, "xstop">>]),
              Obj("Assignment", None, <<>>, [lhs |-> j_stop, rhs |-> <<field, "ystop">>])>>
        started == <<"validate", "new_symbol", "new_symbol">>
    IN IF validated # "none"
       THEN Outcome(validated, nodes, symbols, files, <<"validate">>)
       ELSE IF argument_list = <<>>
       THEN Outcome("IndexError", nodes, with_jstop, files, started)
       ELSE IF fields = {}
       THEN Outcome("UnboundLocalError", nodes, with_jstop, files, started)
       ELSE Bind(insert(made, node, 0, Len(nodes) + 1),
              LAMBDA first :
                IF first.err # "none"
                THEN Outcome(first.err, nodes, with_jstop, files, started)
                ELSE Bind(insert(first.nodes, node, 1, Len(nodes) + 2),
                       LAMBDA second :
                         IF second.err # "none"
                         THEN Outcome(second.err, first.nodes, with_jstop, files,
                                      Append(started, "insert"))
                         ELSE Bind(UpdateLoopBounds(second.nodes,
                                       walk(second.nodes, node, {"GOLoop"}), 1,
                                       i_stop, j_stop, started \o <<"insert", "insert">>),
                                LAMBDA bounds :
                                  Outcome(bounds.err, bounds.nodes, with_jstop, files,
                                          bounds.log))))

\* ACCUpdateTrans._acc_region_nodes
_acc_region_nodes == {"ACCParallelDirective", "ACCKernelsDirective", "Call"}

\* ACCUpdateTrans._loop_vars: the loop variables of the NEMO configuration.
_loop_vars == {"ji", "jj", "jk"}

\* ACCUpdateTrans.validate: the node must be a Schedule, then the checks of
\* the base class.
ACCUpdateTrans_validate(nodes, node, options) ==
    IF ~ isinstance(nodes[node].kind, "Schedule") THEN "TransformationError"
    ELSE Transformation_validate("ACCUpdateTrans", options)

RECURSIVE ChildAbove(_, _, _)
\* "while child not in parent.children: child = child.parent"
ChildAbove(nodes, parent, child) ==
    IF \E k \in 1..Len(nodes[parent].children) : nodes[parent].children[k] = child
    THEN child
    ELSE ChildAbove(nodes, parent, nodes[child].parent)

\* parent.children.index(child)
IndexOf(nodes, parent, child) ==
    (CHOOSE k \in 1..Len(nodes[parent].children) : nodes[parent].children[k] = child) - 1

RECURSIVE AddUpdatesFor(_, _, _, _, _, _, _, _)
\* "for sig in inputs" (direction host, the directive goes before `anchor`)
\* and "for sig in outputs" (direction device, it goes after), from the
\* k-th entry of the list on.
AddUpdatesFor(nodes, symbols, sched, anchor, sigs, k, direction, log) ==
    IF k > Len(sigs) THEN Tree("none", nodes, log)
    ELSE
    LET sig == sigs[k]
        known == [root |-> sig.var_name, idx |-> 0] \in NameSet(symbols)
        made == Append(nodes, Obj("ACCUpdateDirective", None, <<>>,
                                  [sym |-> sig.var_name, direction |-> direction]))
        index == IndexOf(nodes, sched, anchor) + (IF direction = "host" THEN 0 ELSE 1)
    IN IF ~ hasattr(sig, "is_structure") THEN Tree("AttributeError", nodes, log)
       ELSE IF sig.is_structure THEN Tree("NotImplementedError", nodes, log)
       ELSE IF direction = "host" /\ sig.var_name \in _loop_vars
       THEN AddUpdatesFor(nodes, symbols, sched, anchor, sigs, k + 1, direction, log)
       ELSE IF ~ known THEN Tree("KeyError", nodes, log)
       ELSE IF direction = "device" /\ sig.var_name \in _loop_vars
       THEN AddUpdatesFor(nodes, symbols, sched, anchor, sigs, k + 1, direction, log)
       ELSE Bind(insert(made, sched, index, Len(nodes) + 1),
              LAMBDA added :
                IF added.err # "none" THEN Tree(added.err, nodes, log)
                ELSE AddUpdatesFor(added.nodes, symbols, sched, anchor, sigs, k + 1,
                                   direction, Append(log, "addchild")))

\* ACCUpdateTrans._add_update_directives(sched, node_list)
_add_update_directives(nodes, symbols, sched, node_list, log) ==
    Bind(get_in_out_parameters(nodes, node_list),
      LAMBDA params :
        Bind(IF params.inputs # <<>>
             THEN AddUpdatesFor(nodes, symbols, sched,
                                ChildAbove(nodes, sched, node_list[1]),
                                params.inputs, 1, "host", log)
             ELSE Tree("none", nodes, log),
          LAMBDA host :
            IF host.err # "none" \/ params.outputs = <<>> THEN host
            ELSE AddUpdatesFor(host.nodes, symbols, sched,
                               ChildAbove(host.nodes, sched, node_list[Len(node_list)]),
                               params.outputs, 1, "device", host.log)))

RECURSIVE add_updates(_, _, _, _)
RECURSIVE add_updates_from(_, _, _, _, _, _, _)
\* ACCUpdateTrans.add_updates(sched)
add_updates(nodes, symbols, sched, log) ==
    add_updates_from(nodes, symbols, sched, nodes[sched].children, 1, <<>>, log)

\* The body of "for child in sched.children[:]" from the k-th child on, and
\* what follows the loop; node_list holds the host statements seen so far.
add_updates_from(nodes, symbols, sched, children, k, node_list, log) ==
    IF k > Len(children)
    THEN IF node_list # <<>>
         THEN _add_update_directives(nodes, symbols, sched, node_list, log)
         ELSE Tree("none", nodes, log)
    ELSE
    LET child == children[k]
        kind == nodes[child].kind
        operators == nodes[child].info.operators
    IN IF isinstance(kind, "ACCEnterDataDirective")
       THEN add_updates_from(nodes, symbols, sched, children, k + 1, node_list, log)
       ELSE IF walk(nodes, child, _acc_region_nodes) = <<>>
       THEN add_updates_from(nodes, symbols, sched, children, k + 1,
                             Append(node_list, child), log)
       ELSE
       Bind(IF node_list # <<>>
            THEN _add_update_directives(nodes, symbols, sched, node_list, log)
            ELSE Tree("none", nodes, log),
         LAMBDA flushed :
           IF flushed.err # "none" THEN flushed
           ELSE IF isinstance(kind, "Call")
                   /\ \E o \in 1..Len(operators) : operators[o] \notin {"LBOUND", "UBOUND"}
           THEN Tree("NotImplementedError", flushed.nodes, flushed.log)
           ELSE IF ~ isinstance(kind, "IfBlock")
           THEN add_updates_from(flushed.nodes, symbols, sched, children, k + 1, <<>>,
                                 flushed.log)
           ELSE
           Bind(_add_update_directives(flushed.nodes, symbols, sched,
                                       <<nodes[child].children[1]>>, flushed.log),
             LAMBDA condition :
               IF condition.err # "none" THEN condition
               ELSE
               Bind(add_updates(condition.nodes, symbols, nodes[child].children[2],
                                condition.log),
                 LAMBDA if_body :
                   IF if_body.err # "none" THEN if_body
                   ELSE
                   Bind(IF Len(nodes[child].children) >= 3
                        THEN add_updates(if_body.nodes, symbols, nodes[child].children[3],
                                         if_body.log)
                        ELSE if_body,
                     LAMBDA else_body :
                       IF else_body.err # "none" THEN else_body
                       ELSE add_updates_from(else_body.nodes, symbols, sched, children,
                                             k + 1, <<>>, else_body.log)))))

\* ACCUpdateTrans.apply(node, options)
ACCUpdateTrans_apply(nodes, symbols, files, node, options) ==
    IF ACCUpdateTrans_validate(nodes, node, options) # "none"
    THEN Outcome(ACCUpdateTrans_validate(nodes, node, options), nodes, symbols, files,
                 <<"validate">>)
    ELSE Bind(add_updates(nodes, symbols, node, <<"validate">>),
           LAMBDA updated : Outcome(updated.err, updated.nodes, symbols, files, updated.log))

\* RegionTrans.validate, which ExtractTrans inherits: known options only,
\* and every node is a statement of a Schedule.
RegionTrans_validate(trans, nodes, node_list, options) ==
    IF Transformation_validate(trans, options) # "none" THEN "TransformationError"
    ELSE IF \E k \in 1..Len(node_list) :
               \/ ~ isinstance(nodes[node_list[k]].kind, "Statement")
               \/ nodes[node_list[k]].parent = None
               \/ ~ isinstance(KindOf(nodes, nodes[node_list[k]].parent), "Schedule")
    THEN "TransformationError"
    ELSE "none"

\* LFRicExtractTrans.validate: the inherited checks, then no node may sit
\* below a DynLoop over colours.
LFRicExtractTrans_validate(nodes, node_list, options) ==
    IF RegionTrans_validate("LFRicExtractTrans", nodes, node_list, options) # "none"
    THEN "TransformationError"
    ELSE IF \E k \in 1..Len(node_list) :
               LET above == ancestor(nodes, node_list[k], "DynLoop")
               IN above # None /\ nodes[above].info.loop_type = "colours"
    THEN "TransformationError"
    ELSE "none"

\* ExtractTrans.apply(nodes, options) of an LFRicExtractTrans: validate, then
\* put the node into the Schedule of a new ExtractNode that takes its place.
ExtractTrans_apply(nodes, node_list, options) ==
    LET validated == LFRicExtractTrans_validate(nodes, node_list, options)
        node == node_list[1]
        parent == nodes[node].parent
        index == position(nodes, node)
        extract == Len(nodes) + 1
        schedule == Len(nodes) + 2
        detached == detach(nodes, node)
        made == detached.nodes \o
                    <<Obj("ExtractNode", None, <<>>, [region_name |-> "region"]),
                      Obj("Schedule", None, <<>>, [body_of |-> "ExtractNode"])>>
        inner == addchild(made, schedule, node)
        outer == addchild(inner.nodes, extract, schedule)
        placed == insert(outer.nodes, parent, index, extract)
    IN IF validated # "none" THEN Tree(validated, nodes, <<"validate">>)
       ELSE IF detached.err # "none" THEN Tree(detached.err, nodes, <<"validate">>)
       ELSE IF inner.err # "none" THEN Tree(inner.err, detached.nodes, <<"validate", "detach">>)
       ELSE IF outer.err # "none" THEN Tree(outer.err, inner.nodes, <<"validate", "detach", "addchild">>)
       ELSE Tree(placed.err, placed.nodes, <<"validate", "detach", "addchild", "addchild", "insert">>)

\* LFRicExtractTrans.apply(nodes, options)
LFRicExtractTrans_apply(nodes, symbols, files, node, options) ==
    LET my_options == options \cup {"region_name", "prefix", "post_var_postfix"}
        node_list == <<node>>
        params == get_in_out_parameters(nodes, node_list)
        create_driver == "create_driver" \in my_options
        written == IF create_driver
                   THEN Append(files, [region_name |-> Len(files) + 1,
                                       input_list |-> params.inputs,
                                       output_list |-> params.outputs])
                   ELSE files
        result == ExtractTrans_apply(nodes, node_list, my_options)
    IN Outcome(result.err, result.nodes, symbols, written,
               (IF create_driver THEN <<"write_driver">> ELSE <<>>) \o result.log)

\* The names omp_task_trans.py imports or defines.
OMPTaskTransNames ==
    {"VariablesAccessInfo", "LazyString", "InternalError", "Transformation", "nodes",
     "FortranWriter", "Loop", "Schedule", "OMPDoDirective", "OMPTaskDirective",
     "OMPSerialDirective", "OMPSingleDirective", "OMPParallelDirective",
     "TransformationError", "OMPTaskTrans"}

\* OMPTaskTrans.validate: it names CodeBlock, which the module does not
\* have; past that, GenerationError, and super(Transformation) has no
\* validate.
OMPTaskTrans_validate(nodes, node, options) ==
    IF "CodeBlock" \notin OMPTaskTransNames THEN "NameError"
    ELSE IF walk(nodes, node, {"CodeBlock"}) # <<>>
    THEN (IF "GenerationError" \notin OMPTaskTransNames THEN "NameError"
          ELSE "GenerationError")
    ELSE "AttributeError"

\* Transformation.apply(node, options), which OMPTaskTrans.apply hands over
\* to: validate first; the base class rewrites nothing.
Transformation_apply(nodes, node, options) ==
    Tree(OMPTaskTrans_validate(nodes, node, options), nodes, <<"validate">>)

\* OMPTaskTrans.apply(node, options)
OMPTaskTrans_apply(nodes, symbols, files, node, options) ==
    LET result == Transformation_apply(nodes, node, options)
    IN Outcome(result.err, result.nodes, symbols, files, result.log)

(***************************************************************************)
(* The trees transformations are applied to, and the apply calls.          *)
(***************************************************************************)
Read(var_name) == [signature |-> Signature(var_name, FALSE), access_type |-> "READ"]

Write(var_name) == [signature |-> Signature(var_name, FALSE), access_type |-> "WRITE"]

Literal(parent) == Obj("Literal", parent, <<>>, [value |-> "1"])

\* A GOcean invoke: an outer loop around an inner loop around a kernel with
\* the given index offset, or around nothing when there is no kernel.
GOceanTree(root_kind, index_offset) ==
    <<Obj(root_kind, None, <<2>>, [name |-> "invoke_0"]),
      Obj("GOLoop", 1, <<3, 4, 5, 6>>, [loop_type |-> "outer"]),
      Literal(2), Literal(2), Literal(2),
      Obj("Schedule", 2, <<7>>, [body_of |-> "GOLoop"]),
      Obj("GOLoop", 6, <<8, 9, 10, 11>>, [loop_type |-> "inner"]),
      Literal(7), Literal(7), Literal(7),
      Obj("Schedule", 7, IF index_offset = NoneStr THEN <<>> ELSE <<12>>,
          [body_of |-> "GOLoop"])>>
    \o (IF index_offset = NoneStr THEN <<>>
        ELSE <<Obj("GOKern", 11, <<>>, [index_offset |-> index_offset,
                                       accesses |-> <<Write("fld")>>])>>)

\* Schedules with host statements, OpenACC regions, calls and an if block.
ACCTrees ==
    {<<Obj("Schedule", None, <<2, 3>>, [name |-> "host_then_kernels"]),
       Obj("Assignment", 1, <<>>, [accesses |-> <<Read("a"), Write("b")>>]),
       Obj("ACCKernelsDirective", 1, <<4>>, [default_present |-> FALSE]),
       Obj("Schedule", 3, <<5>>, [body_of |-> "ACCKernelsDirective"]),
       Obj("Assignment", 4, <<>>, [accesses |-> <<Read("b"), Write("c")>>])>>,
     <<Obj("Schedule", None, <<2, 3>>, [name |-> "host_then_call"]),
       Obj("Assignment", 1, <<>>, [accesses |-> <<Write("b")>>]),
       Obj("Call", 1, <<>>, [operators |-> <<"ADD">>])>>,
     <<Obj("Schedule", None, <<2>>, [name |-> "kernels_only"]),
       Obj("ACCKernelsDirective", 1, <<3>>, [default_present |-> FALSE]),
       Obj("Schedule", 2, <<>>, [body_of |-> "ACCKernelsDirective"])>>,
     <<Obj("Schedule", None, <<2>>, [name |-> "call_with_add"]),
       Obj("Call", 1, <<>>, [operators |-> <<"ADD">>])>>,
     <<Obj("Schedule", None, <<2>>, [name |-> "call_with_lbound"]),
       Obj("Call", 1, <<>>, [operators |-> <<"LBOUND">>])>>,
     <<Obj("Schedule", None, <<2>>, [name |-> "if_block"]),
       Obj("IfBlock", 1, <<3, 4>>, [annotations |-> <<>>]),
       Obj("Reference", 2, <<>>, [accesses |-> <<Read("c")>>]),
       Obj("Schedule", 2, <<5>>, [body_of |-> "IfBlock"]),
       Obj("ACCKernelsDirective", 4, <<6>>, [default_present |-> FALSE]),
       Obj("Schedule", 5, <<>>, [body_of |-> "ACCKernelsDirective"])>>,
     <<Obj("Schedule", None, <<2>>, [name |-> "if_block_with_host_code"]),
       Obj("IfBlock", 1, <<3, 4, 5>>, [annotations |-> <<>>]),
       Obj("Reference", 2, <<>>, [accesses |-> <<Read("c")>>]),
       Obj("Schedule", 2, <<6, 7>>, [body_of |-> "IfBlock"]),
       Obj("Schedule", 2, <<9>>, [body_of |-> "IfBlock"]),
       Obj("Assignment", 4, <<>>, [accesses |-> <<Read("a"), Write("b")>>]),
       Obj("ACCKernelsDirective", 4, <<8>>, [default_present |-> FALSE]),
       Obj("Schedule", 7, <<>>, [body_of |-> "ACCKernelsDirective"]),
       Obj("Assignment", 5, <<>>, [accesses |-> <<Write("a")>>])>>}

\* An LFRic invoke with colouring: a loop over colours around a loop over the
\* cells of a colour around a kernel.
LFRicTree ==
    <<Obj("Schedule", None, <<2>>, [name |-> "invoke_0"]),
      Obj("DynLoop", 1, <<3, 4, 5, 6>>, [loop_type |-> "colours"]),
      Literal(2), Literal(2), Literal(2),
      Obj("Schedule", 2, <<7>>, [body_of |-> "DynLoop"]),
      Obj("DynLoop", 6, <<8, 9, 10, 11>>, [loop_type |-> "colour"]),
      Literal(7), Literal(7), Literal(7),
      Obj("Schedule", 7, <<12>>, [body_of |-> "DynLoop"]),
      Obj("LFRicKern", 11, <<>>, [accesses |-> <<Read("f1"), Write("f2")>>])>>

\* The argument lists of a GOcean invoke: none, a field, a scalar.
ArgumentLists ==
    {<<>>,
     << [name |-> Name("fld", 0), datatype |-> "r2d_field"] >>,
     << [name |-> Name("n", 0), datatype |-> "INTEGER"] >>}

IndexOffsets == {"go_offset_ne", "go_offset_se", NoneStr}

SymbolsOf(argument_list) ==
    [names |-> [k \in 1..Len(argument_list) |-> argument_list[k].name],
     argument_list |-> argument_list]

Fixtures ==
    {[nodes |-> GOceanTree(root_kind, index_offset), symbols |-> SymbolsOf(argument_list)] :
        root_kind \in {"GOInvokeSchedule", "Schedule"},
        index_offset \in IndexOffsets, argument_list \in ArgumentLists}
    \cup {[nodes |-> tree,
           symbols |-> [names |-> <<Name("a", 0), Name("b", 0), Name("c", 0)>>,
                        argument_list |-> <<>>]] : tree \in ACCTrees}
    \cup {[nodes |-> LFRicTree, symbols |-> SymbolsOf(<<>>)]}

\* What a caller hands to apply as the node: the root of the tree or a loop.
Targets ==
    {n \in 1..Len(tx_nodes) :
        tx_nodes[n].parent = None \/ isinstance(tx_nodes[n].kind, "Loop")}

\* The options a caller passes: none, create_driver, a key nothing knows.
OptionSets == {{}, {"create_driver"}, {"bogus"}}

\* The state after trans.apply(node, options) gave `outcome`.
Applied(trans, node, options, validated, outcome) ==
    /\ tx_applied < MaxApplies
    /\ tx_applied' = tx_applied + 1
    /\ tx_nodes' = outcome.nodes
    /\ tx_symbols' = outcome.symbols
    /\ tx_files' = outcome.files
    /\ tx_ret' = [trans |-> trans, node |-> node, options |-> options,
                  err |-> outcome.err, log |-> outcome.log, validate |-> validated,
                  before |-> [nodes |-> tx_nodes, symbols |-> tx_symbols,
                              files |-> tx_files]]
    /\ UNCHANGED tx_rest

TxGOConstLoopBoundsTrans(node, options) ==
    \E outcome \in {GOConstLoopBoundsTrans_apply(tx_nodes, tx_symbols, tx_files, node, options)} :
        Applied("GOConstLoopBoundsTrans", node, options,
                GOConstLoopBoundsTrans_validate(tx_nodes, node, options), outcome)

TxACCUpdateTrans(node, options) ==
    \E outcome \in {ACCUpdateTrans_apply(tx_nodes, tx_symbols, tx_files, node, options)} :
        Applied("ACCUpdateTrans", node, options,
                ACCUpdateTrans_validate(tx_nodes, node, options), outcome)

TxLFRicExtractTrans(node, options) ==
    \E outcome \in {LFRicExtractTrans_apply(tx_nodes, tx_symbols, tx_files, node, options)} :
        Applied("LFRicExtractTrans", node, options,
                LFRicExtractTrans_validate(tx_nodes, <<node>>, options), outcome)

TxOMPTaskTrans(node, options) ==
    \E outcome \in {OMPTaskTrans_apply(tx_nodes, tx_symbols, tx_files, node, options)} :
        Applied("OMPTaskTrans", node, options,
                OMPTaskTrans_validate(tx_nodes, node, options), outcome)

TxInit ==
    /\ \E fixture \in Fixtures :
          /\ tx_nodes = fixture.nodes
          /\ tx_symbols = fixture.symbols
    /\ tx_files = <<>>
    /\ tx_applied = 0
    /\ tx_ret = [trans |-> "none", err |-> "none"]

\* No tree is being transformed.
TxIdle ==
    /\ tx_nodes = <<>>
    /\ tx_symbols = [names |-> <<>>, argument_list |-> <<>>]
    /\ tx_files = <<>>
    /\ tx_applied = 0
    /\ tx_ret = [trans |-> "none", err |-> "none"]

TxNext ==
    \/ \E node \in Targets, options \in OptionSets : TxGOConstLoopBoundsTrans(node, options)
    \/ \E node \in Targets, options \in OptionSets : TxACCUpdateTrans(node, options)
    \/ \E node \in Targets, options \in OptionSets : TxLFRicExtractTrans(node, options)
    \/ \E node \in Targets, options \in OptionSets : TxOMPTaskTrans(node, options)

(***************************************************************************)
(* DependencyTools analysing a tree: can_loop_be_parallelised and the      *)
(* calls on the variables and node lists of that tree.                     *)
(***************************************************************************)
\* access.indices of an entry of a VariablesAccessInfo; an access recorded
\* without component indices is that of a plain name.
indices_of(access) ==
    IF "indices" \in DOMAIN access THEN access.indices ELSE << <<>> >>

\* var_accesses[signature]: the SingleVariableAccessInfo of one variable.
SingleVariableAccessInfo(var_accesses, signature) ==
    LET accesses == AccessesTo(var_accesses, signature)
    IN [var_name |-> signature.var_name,
        all_accesses |-> [k \in 1..Len(accesses) |->
                             [access_type |-> accesses[k].access_type,
                              indices |-> indices_of(accesses[k])]]]

\* access_information.is_array(): some access uses an index.
is_array(var_info) ==
    \E k \in 1..Len(var_info.all_accesses) :
        \E c \in 1..Len(var_info.all_accesses[k].indices) :
            var_info.all_accesses[k].indices[c] # <<>>

\* loop.scope.symbol_table.lookup(var_name).is_array
symbol_is_array(nodes, var_name) == var_name \in nodes[1].info.arrays

\* The argument access_information=None.
NoAccessInformation == [none |-> TRUE]

\* DependencyTools.is_variable_array(var_name, access_information,
\* symbol_table, loop_variable); loop_variable is "None" when it is not
\* given, and the symbol table is that of the tree.
is_variable_array(nodes, var_name, access_information, loop_variable) ==
    IF loop_variable # NoneStr /\ access_information = NoAccessInformation
    THEN [err |-> "InternalError", ret |-> FALSE]
    ELSE IF access_information = NoAccessInformation
    THEN [err |-> "AttributeError", ret |-> FALSE]
    ELSE IF is_array(access_information)
    THEN [err |-> "none", ret |-> TRUE]
    ELSE [err |-> "none", ret |-> symbol_is_array(nodes, var_name)]

\* _is_loop_suitable_for_parallel that accepts a loop without inner loop.
_is_loop_suitable_for_parallel_any_depth(nodes, loop_types, loop, only_nested_loops, messages) ==
    IF nodes[loop].info.loop_type \notin loop_types
    THEN [ret |-> FALSE,
          messages |-> _add_info(messages,
              [msg |-> "wrong_loop_type", loop_type |-> nodes[loop].info.loop_type])]
    ELSE [ret |-> TRUE, messages |-> messages]

\* DependencyTools._is_loop_suitable_for_parallel(loop, only_nested_loops)
_is_loop_suitable_for_parallel(nodes, loop_types, loop, only_nested_loops, messages) ==
    IF only_nested_loops /\ Len(walk(nodes, loop, {"Loop"})) = 1
    THEN [ret |-> FALSE, messages |-> _add_info(messages, [msg |-> "not_nested"])]
    ELSE IF nodes[loop].info.loop_type \notin loop_types
    THEN [ret |-> FALSE,
          messages |-> _add_info(messages,
              [msg |-> "wrong_loop_type", loop_type |-> nodes[loop].info.loop_type])]
    ELSE [ret |-> TRUE, messages |-> messages]

\* The loop over var_accesses.all_signatures of can_loop_be_parallelised
\* (lines 427-462), from signature k on; `result` and `messages` are what
\* the signatures before k have left.
RECURSIVE CheckSignatures(_, _, _, _, _, _, _, _, _)
CheckSignatures(nodes, loop_variable, loop_vars, var_accesses, signatures, k, test_all_variables, result, messages) ==
    IF k > Len(signatures) THEN [ret |-> result, messages |-> messages]
    ELSE IF signatures[k].var_name \in loop_vars
    THEN CheckSignatures(nodes, loop_variable, loop_vars, var_accesses,
                         signatures, k + 1, test_all_variables, result, messages)
    ELSE Bind(SingleVariableAccessInfo(var_accesses, signatures[k]),
         LAMBDA var_info :
         Bind(IF is_variable_array(nodes, signatures[k].var_name, var_info, NoneStr).ret
              THEN is_array_parallelisable(loop_variable, var_info, messages)
              ELSE is_scalar_parallelisable(var_info, messages),
         LAMBDA par_able :
            IF ~ par_able.ret /\ ~ test_all_variables
            THEN [ret |-> FALSE, messages |-> par_able.messages]
            ELSE CheckSignatures(nodes, loop_variable, loop_vars, var_accesses,
                                 signatures, k + 1, test_all_variables,
                                 result /\ par_able.ret, par_able.messages)))

\* can_loop_be_parallelised without the `result = False` of line 460: a
\* variable that fails is forgotten when all variables are tested.
can_loop_be_parallelised_result_kept(nodes, loop_types, loop, loop_variable, only_nested_loops, test_all_variables) ==
    IF ~ isinstance(nodes[loop].kind, "Loop")
    THEN [err |-> "TypeError", ret |-> FALSE, messages |-> _clear_messages]
    ELSE
    Bind(_is_loop_suitable_for_parallel(nodes, loop_types, loop,
                                        only_nested_loops, _clear_messages),
    LAMBDA suitable :
        IF ~ suitable.ret
        THEN [err |-> "none", ret |-> FALSE, messages |-> suitable.messages]
        ELSE
        Bind(VariablesAccessInfo(nodes, <<loop>>),
        LAMBDA var_accesses :
        Bind(walk(nodes, loop, {"Loop"}),
        LAMBDA all_loops :
        Bind(CheckSignatures(nodes,
                 IF loop_variable = NoneStr THEN nodes[loop].info.variable
                 ELSE loop_variable,
                 {nodes[all_loops[k]].info.variable : k \in 1..Len(all_loops)},
                 var_accesses, all_signatures(var_accesses), 1,
                 test_all_variables, TRUE, suitable.messages),
        LAMBDA checked :
            [err |-> "none", ret |-> checked.ret \/ test_all_variables,
             messages |-> checked.messages]))))

\* DependencyTools.can_loop_be_parallelised(loop, loop_variable,
\* only_nested_loops, test_all_variables): how the call ends, what it
\* returns and the message list it leaves.
can_loop_be_parallelised(nodes, loop_types, loop, loop_variable, only_nested_loops, test_all_variables) ==
    IF ~ isinstance(nodes[loop].kind, "Loop")
    THEN [err |-> "TypeError", ret |-> FALSE, messages |-> _clear_messages]
    ELSE
    Bind(_is_loop_suitable_for_parallel(nodes, loop_types, loop,
                                        only_nested_loops, _clear_messages),
    LAMBDA suitable :
        IF ~ suitable.ret
        THEN [err |-> "none", ret |-> FALSE, messages |-> suitable.messages]
        ELSE
        Bind(VariablesAccessInfo(nodes, <<loop>>),
        LAMBDA var_accesses :
        Bind(walk(nodes, loop, {"Loop"}),
        LAMBDA all_loops :
        Bind(CheckSignatures(nodes,
                 IF loop_variable = NoneStr THEN nodes[loop].info.variable
                 ELSE loop_variable,
                 {nodes[all_loops[k]].info.variable : k \in 1..Len(all_loops)},
                 var_accesses, all_signatures(var_accesses), 1,
                 test_all_variables, TRUE, suitable.messages),
        LAMBDA checked :
            [err |-> "none", ret |-> checked.ret, messages |-> checked.messages]))))

\* An access to an array element or to a plain name.
Access(var_name, access_type, indices) ==
    [signature |-> Signature(var_name, FALSE), access_type |-> access_type,
     indices |-> indices]

\* The accesses one statement inside the loop nest can make: to the array
\* a, with both loop variables or with no loop variable, a read of a with
\* a stencil in j, and a write of the scalar s.
StatementAccesses ==
    {Access("a", t, ix) : t \in {"READ", "WRITE"},
                          ix \in {<< <<Ei, Ej>> >>, << <<E1, E1>> >>}}
    \cup {Access("a", "READ", << <<Ei, Ejm1>> >>),
          Access("s", "WRITE", << <<>> >>)}

\* What Loop.reference_accesses records for the loop itself: its variable
\* is written, then read.
LoopObj(parent, children, loop_type, variable) ==
    Obj("Loop", parent, children,
        [loop_type |-> loop_type, variable |-> variable,
         accesses |-> <<Write(variable), Read(variable)>>])

\* A routine with a loop of one type around a loop of another type around
\* one statement with the given accesses.
LoopNest(outer, inner, accesses) ==
    <<Obj("Schedule", None, <<2>>, [name |-> "routine", arrays |-> {"a"}]),
      LoopObj(1, <<3, 4, 5, 6>>, outer.loop_type, outer.variable),
      Literal(2), Literal(2), Literal(2),
      Obj("Schedule", 2, <<7>>, [body_of |-> "Loop"]),
      LoopObj(6, <<8, 9, 10, 11>>, inner.loop_type, inner.variable),
      Literal(7), Literal(7), Literal(7),
      Obj("Schedule", 7, <<12>>, [body_of |-> "Loop"]),
      Obj("Assignment", 11, <<>>, [accesses |-> accesses])>>

\* The routine  x = 1 ; y = x + z.
BlockTree ==
    <<Obj("Schedule", None, <<2, 3>>, [name |-> "block", arrays |-> {}]),
      Obj("Assignment", 1, <<>>, [accesses |-> <<Write("x")>>]),
      Obj("Assignment", 1, <<>>,
          [accesses |-> <<Read("x"), Read("z"), Write("y")>>])>>

\* NEMO's loop types: the loop over ji is a longitude loop, the loop over
\* jj a latitude loop.
LonLoop == [loop_type |-> "lon", variable |-> "i"]

LatLoop == [loop_type |-> "lat", variable |-> "j"]

LoopTrees ==
    {LoopNest(nest[1], nest[2], accesses) :
        nest \in {<<LonLoop, LatLoop>>, <<LatLoop, LonLoop>>},
        accesses \in UNION {[1..n -> StatementAccesses] : n \in 1..MaxLoopAcc}}
    \cup {BlockTree}

\* The allow-lists a DependencyTools object is built with.
LoopTypeLists == {{"lat"}, {}}

\* The nodes a caller hands to can_loop_be_parallelised: the loops and the
\* statements.
LpLoops ==
    {n \in 1..Len(lp_nodes) :
        isinstance(lp_nodes[n].kind, "Loop") \/ lp_nodes[n].kind = "Assignment"}

\* The node lists a caller hands to get_input_parameters and its like: one
\* statement, or all statements of the routine.
LpNodeLists ==
    {<<n>> : n \in {m \in 1..Len(lp_nodes) : isinstance(lp_nodes[m].kind, "Statement")}}
    \cup {lp_nodes[1].children}

\* The variables of the tree.
LpSignatures ==
    LET signatures == all_signatures(VariablesAccessInfo(lp_nodes, <<1>>))
    IN {signatures[k] : k \in 1..Len(signatures)}

\* The state after a call that returned `ret`, left `messages` and would
\* have left `produced` on an object without earlier messages.
LpCalled(op, args, err, ret, messages, produced) ==
    /\ lp_calls' = lp_calls + 1
    /\ lp_messages' = messages
    /\ lp_ret' = [op |-> op, args |-> args, err |-> err, ret |-> ret,
                  before |-> lp_messages, produced |-> produced]
    /\ UNCHANGED <<lp_nodes, lp_loop_types>>
    /\ UNCHANGED lp_rest

\* dep_tools.can_loop_be_parallelised(loop, loop_variable,
\* only_nested_loops, test_all_variables)
LpCanLoopBeParallelised(loop, loop_variable, only_nested_loops, test_all_variables) ==
    /\ lp_calls < MaxLoopCalls
    /\ \E r \in {can_loop_be_parallelised(lp_nodes, lp_loop_types, loop, loop_variable,
                                          only_nested_loops, test_all_variables)} :
           LpCalled("can_loop_be_parallelised",
                    [loop |-> loop, loop_variable |-> loop_variable,
                     only_nested_loops |-> only_nested_loops,
                     test_all_variables |-> test_all_variables],
                    r.err, r.ret, r.messages, r.messages)

\* dep_tools.is_array_parallelisable(loop_variable, var_accesses[signature])
LpIsArrayParallelisable(loop_variable, signature) ==
    /\ lp_calls < MaxLoopCalls
    /\ \E var_info \in {SingleVariableAccessInfo(VariablesAccessInfo(lp_nodes, <<1>>),
                                                 signature)} :
           LpCalled("is_array_parallelisable",
                    [loop_variable |-> loop_variable, var_info |-> var_info], "none",
                    is_array_parallelisable(loop_variable, var_info, lp_messages).ret,
                    is_array_parallelisable(loop_variable, var_info, lp_messages).messages,
                    is_array_parallelisable(loop_variable, var_info, _clear_messages).messages)

\* dep_tools.is_scalar_parallelisable(var_accesses[signature])
LpIsScalarParallelisable(signature) ==
    /\ lp_calls < MaxLoopCalls
    /\ \E var_info \in {SingleVariableAccessInfo(VariablesAccessInfo(lp_nodes, <<1>>),
                                                 signature)} :
           LpCalled("is_scalar_parallelisable", [var_info |-> var_info], "none",
                    is_scalar_parallelisable(var_info, lp_messages).ret,
                    is_scalar_parallelisable(var_info, lp_messages).messages,
                    is_scalar_parallelisable(var_info, _clear_messages).messages)

\* DependencyTools.is_variable_array(signature.var_name, access_information,
\* symbol_table, loop_variable), with the access information of the
\* variable in the tree or without access information.
LpIsVariableArray(signature, with_access_information, loop_variable) ==
    /\ lp_calls < MaxLoopCalls
    /\ \E access_information \in
            {IF with_access_information
             THEN SingleVariableAccessInfo(VariablesAccessInfo(lp_nodes, <<1>>), signature)
             ELSE NoAccessInformation} :
         \E r \in {is_variable_array(lp_nodes, signature.var_name, access_information,
                                     loop_variable)} :
            LpCalled("is_variable_array",
                     [var_name |-> signature.var_name,
                      access_information |-> access_information,
                      loop_variable |-> loop_variable],
                     r.err, r.ret, lp_messages, <<>>)

\* dep_tools.get_input_parameters(node_list)
LpGetInputParameters(node_list) ==
    /\ lp_calls < MaxLoopCalls
    /\ LpCalled("get_input_parameters", [node_list |-> node_list], "none",
                get_input_parameters(VariablesAccessInfo(lp_nodes, node_list)),
                lp_messages, <<>>)

\* dep_tools.get_output_parameters(node_list)
LpGetOutputParameters(node_list) ==
    /\ lp_calls < MaxLoopCalls
    /\ LpCalled("get_output_parameters", [node_list |-> node_list], "none",
                get_output_parameters(VariablesAccessInfo(lp_nodes, node_list)),
                lp_messages, <<>>)

\* dep_tools.get_in_out_parameters(node_list)
LpGetInOutParameters(node_list) ==
    /\ lp_calls < MaxLoopCalls
    /\ LpCalled("get_in_out_parameters", [node_list |-> node_list], "none",
                get_in_out_parameters(lp_nodes, node_list), lp_messages, <<>>)

\* DependencyTools(loop_types_to_parallelise), and the tree it will look at.
LpInit ==
    /\ lp_nodes \in LoopTrees
    /\ lp_loop_types \in LoopTypeLists
    /\ lp_messages = _clear_messages
    /\ lp_calls = 0
    /\ lp_ret = [op |-> "none", err |-> "none"]

\* No tree is being analysed.
LpIdle ==
    /\ lp_nodes = <<>>
    /\ lp_loop_types = {}
    /\ lp_messages = <<>>
    /\ lp_calls = 0
    /\ lp_ret = [op |-> "none", err |-> "none"]

LpNext ==
    \/ \E loop \in LpLoops, loop_variable \in {NoneStr, "j"},
          only_nested_loops \in BOOLEAN, test_all_variables \in BOOLEAN :
          LpCanLoopBeParallelised(loop, loop_variable, only_nested_loops,
                                  test_all_variables)
    \/ \E loop_variable \in LoopVariables, signature \in LpSignatures :
          LpIsArrayParallelisable(loop_variable, signature)
    \/ \E signature \in LpSignatures : LpIsScalarParallelisable(signature)
    \/ \E node_list \in LpNodeLists : LpGetInputParameters(node_list)
    \/ \E node_list \in LpNodeLists : LpGetOutputParameters(node_list)
    \/ \E node_list \in LpNodeLists : LpGetInOutParameters(node_list)
    \/ \E signature \in LpSignatures, with_access_information \in BOOLEAN,
          loop_variable \in LoopVariables \cup {NoneStr} :
          LpIsVariableArray(signature, with_access_information, loop_variable)

(***************************************************************************)
(* psyir/backend/sir.py: the SIRWriter visitor.                            *)
(***************************************************************************)
\* A Python dict: no entry, and the dict with d[key] = value.
EmptyDict == [key \in {} |-> None]

DictSet(d, key, value) ==
    [k \in DOMAIN d \cup {key} |-> IF k = key THEN value ELSE d[k]]

\* The fields of a SIRWriter that change while it writes, with the order in
\* which the sets of its process iterate.
SirWriterState(depth, field_names, fields, scalar_names, scalars, hash_order) ==
    [depth |-> depth, field_names |-> field_names, fields |-> fields,
     scalar_names |-> scalar_names, scalars |-> scalars,
     hash_order |-> hash_order]

\* How a visit ends: with the text it returns, or with an exception; `w`
\* is the writer as the visit leaves it.
Emitted(out, w) == [err |-> "none", out |-> out, w |-> w]

Raised(err, w) == [err |-> err, out |-> <<>>, w |-> w]

\* One piece of the generated text, at the indentation of the given depth.
Line(text, depth, details) == [text |-> text, indent |-> depth] @@ details

\* The elements of a Python set in the order a "for" loop meets them when
\* strings hash in the given order.
SetOrder(names, hash_order) == SelectSeq(hash_order, LAMBDA name : name \in names)

\* TYPE_MAP_TO_SIR
TYPE_MAP_TO_SIR ==
    [REAL |-> "BuiltinType.Float", INTEGER |-> "BuiltinType.Integer"]

\* The literal values int() converts, and what it gives for them.
IntTexts == {"1", "2"}

int(value) == IF value = "1" THEN 1 ELSE 2

\* The visitor method PSyIRVisitor._visit finds for a node: the first
\* <class>_node along the classes of the node that SIRWriter defines;
\* node_node is the one of the class Node.
SirHandler(kind) ==
    CASE kind = "NemoInvokeSchedule" -> "nemoinvokeschedule_node"
      [] kind = "NemoLoop" -> "nemoloop_node"
      [] kind = "NemoKern" -> "nemokern_node"
      [] kind = "Assignment" -> "assignment_node"
      [] kind = "BinaryOperation" -> "binaryoperation_node"
      [] kind = "UnaryOperation" -> "unaryoperation_node"
      [] kind = "ArrayReference" -> "arrayreference_node"
      [] kind = "Reference" -> "reference_node"
      [] kind = "Literal" -> "literal_node"
      [] kind = "IfBlock" -> "ifblock_node"
      [] kind # "NemoInvokeSchedule" /\ isinstance(kind, "Schedule") -> "schedule_node"
      [] OTHER -> "node_node"

\* binary_operators of binaryoperation_node
binary_operators ==
    [ADD |-> "+", SUB |-> "-", MUL |-> "*", DIV |-> "/", POW |-> "**",
     EQ |-> "==", NE |-> "!=", LE |-> "<=", LT |-> "<", GE |-> ">=",
     GT |-> ">", AND |-> "&&", OR |-> "||"]

RECURSIVE StencilDims(_, _, _, _)
\* The loop of gen_stencil over the indices of an array access, from the
\* k-th index on; dims has three entries.
StencilDims(nodes, children, k, dims) ==
    IF k > Len(children) THEN [err |-> "none", dims |-> dims]
    ELSE
    LET child == nodes[children[k]]
        operands == child.children
    IN IF isinstance(child.kind, "Reference")
       THEN IF k > 3 THEN [err |-> "IndexError", dims |-> dims]
            ELSE StencilDims(nodes, children, k + 1, [dims EXCEPT ![k] = <<"", "0">>])
       ELSE IF child.kind = "BinaryOperation"
       THEN IF Len(operands) >= 2
               /\ isinstance(nodes[operands[1]].kind, "Reference")
               /\ nodes[operands[2]].kind = "Literal"
            THEN IF child.info.operator \notin {"SUB", "ADD"}
                 THEN [err |-> "VisitorError", dims |-> dims]
                 ELSE IF k > 3 THEN [err |-> "IndexError", dims |-> dims]
                 ELSE StencilDims(nodes, children, k + 1,
                          [dims EXCEPT ![k] =
                              <<IF child.info.operator = "SUB" THEN "-" ELSE "",
                                nodes[operands[2]].info.value>>])
            ELSE [err |-> "VisitorError", dims |-> dims]
       ELSE [err |-> "VisitorError", dims |-> dims]

\* gen_stencil(node): the stencil of an array access, each dimension as
\* (sign, offset).
gen_stencil(nodes, node) ==
    IF nodes[node].kind # "ArrayReference"
    THEN [err |-> "VisitorError", dims |-> <<>>]
    ELSE StencilDims(nodes, nodes[node].children, 1,
                     << <<"", "0">>, <<"", "0">>, <<"", "0">> >>)

\* bound_name_offset(expr, name) of create_make_interval; the prints
\* followed by exit(1) end the process with SystemExit.
bound_name_offset(nodes, expr, name) ==
    LET e == nodes[expr]
    IN IF isinstance(e.kind, "Reference") /\ e.info.name = name
       THEN [err |-> "none", offset |-> 0]
       ELSE IF e.kind = "BinaryOperation"
               /\ isinstance(nodes[e.children[1]].kind, "Reference")
               /\ nodes[e.children[1]].info.name = name
       THEN IF e.info.operator # "SUB" THEN [err |-> "SystemExit", offset |-> 0]
            ELSE IF nodes[e.children[2]].kind # "Literal"
            THEN [err |-> "SystemExit", offset |-> 0]
            ELSE IF nodes[e.children[2]].info.value \notin IntTexts
            THEN [err |-> "ValueError", offset |-> 0]
            ELSE [err |-> "none", offset |-> 0 - int(nodes[e.children[2]].info.value)]
       ELSE [err |-> "SystemExit", offset |-> 0]

\* create_make_interval(loop, upper_bound_name)
create_make_interval(nodes, loop, upper_bound_name) ==
    LET start == nodes[loop].children[1]
        stop == nodes[loop].children[2]
        lower ==
            IF nodes[start].kind = "Literal"
            THEN IF nodes[start].info.value \notin IntTexts
                 THEN [err |-> "ValueError"]
                 ELSE [err |-> "none", bound |-> "Interval.Start",
                       offset |-> int(nodes[start].info.value) - 1]
            ELSE [bound |-> "Interval.End"] @@ bound_name_offset(nodes, start, upper_bound_name)
        upper ==
            IF nodes[stop].kind = "Literal"
            THEN IF nodes[stop].info.value \notin IntTexts
                 THEN [err |-> "ValueError"]
                 ELSE [err |-> "none", bound |-> nodes[stop].info.value, offset |-> 0]
            ELSE [bound |-> "Interval.End"] @@ bound_name_offset(nodes, stop, upper_bound_name)
    IN IF lower.err # "none" THEN [err |-> lower.err]
       ELSE IF upper.err # "none" THEN [err |-> upper.err]
       ELSE [err |-> "none",
             interval |-> <<lower.bound, upper.bound, lower.offset, upper.offset>>]

\* Is the content of a loop body a single node of the class?
SingleChild(nodes, loop, cls) ==
    LET loop_content == nodes[nodes[loop].children[4]].children
    IN Len(loop_content) = 1 /\ isinstance(nodes[loop_content[1]].kind, cls)

RECURSIVE FieldDecls(_, _, _, _)
\* "for name in self._field_names" of nemoinvokeschedule_node, from the
\* k-th name on.
FieldDecls(nodes, names, k, w) ==
    IF k > Len(names) THEN [err |-> "none", functions |-> <<>>]
    ELSE
    LET data_symbol == w.fields[names[k]].info.symbol
        rest == FieldDecls(nodes, names, k + 1, w)
    IN IF ~ data_symbol.is_array THEN [err |-> "AssertionError", functions |-> <<>>]
       ELSE IF data_symbol.shape \notin 1..3
       THEN [err |-> "Exception", functions |-> <<>>]
       ELSE IF rest.err # "none" THEN rest
       ELSE [err |-> "none",
             functions |->
                 <<[text |-> "make_field", name |-> names[k],
                    dims |-> CASE data_symbol.shape = 3 -> <<1, 1, 1>>
                               [] data_symbol.shape = 2 -> <<1, 1, 0>>
                               [] data_symbol.shape = 1 -> <<0, 0, 1>>,
                    is_temporary |-> data_symbol.is_local]>> \o rest.functions]

RECURSIVE ScalarDecls(_, _, _, _)
\* "for name in self._scalar_names" of nemoinvokeschedule_node.
ScalarDecls(nodes, names, k, w) ==
    IF k > Len(names) THEN [err |-> "none", functions |-> <<>>]
    ELSE
    LET data_symbol == w.scalars[names[k]].info.symbol
        rest == ScalarDecls(nodes, names, k + 1, w)
    IN IF data_symbol.is_array THEN [err |-> "AssertionError", functions |-> <<>>]
       ELSE IF rest.err # "none" THEN rest
       ELSE [err |-> "none",
             functions |->
                 <<[text |-> "make_field", name |-> names[k], dims |-> <<1, 0, 0>>,
                    is_temporary |-> data_symbol.is_local]>> \o rest.functions]

\* self._depth += 1 and self._depth -= 1
Deeper(w) == [w EXCEPT !.depth = @ + 1]

Shallower(w) == [w EXCEPT !.depth = @ - 1]

RECURSIVE Visit(_, _, _, _)
RECURSIVE VisitAll(_, _, _, _, _, _)

\* "for child in children: result += self._visit(child)", from the k-th
\* child on; an exception of a child ends the loop.
VisitAll(nodes, skip_nodes, children, k, w, out) ==
    IF k > Len(children) THEN Emitted(out, w)
    ELSE Bind(Visit(nodes, skip_nodes, children[k], w),
              LAMBDA r : IF r.err # "none" THEN r
                         ELSE VisitAll(nodes, skip_nodes, children, k + 1,
                                       r.w, out \o r.out))

\* node_node that writes the two placeholder lines without visiting the
\* children.
node_node_without_children(nodes, skip_nodes, node, w) ==
    IF ~ skip_nodes THEN Raised("VisitorError", w)
    ELSE Emitted(<<Line("[ start ]", w.depth, [kind |-> nodes[node].kind]),
                   Line("[ end ]", w.depth, [kind |-> nodes[node].kind])>>, w)

\* SIRWriter.node_node(node)
node_node(nodes, skip_nodes, node, w) ==
    IF ~ skip_nodes THEN Raised("VisitorError", w)
    ELSE Bind(VisitAll(nodes, skip_nodes, nodes[node].children, 1, Deeper(w),
                       <<Line("[ start ]", w.depth, [kind |-> nodes[node].kind])>>),
              LAMBDA r :
                 IF r.err # "none" THEN r
                 ELSE Emitted(r.out \o <<Line("[ end ]", r.w.depth - 1,
                                              [kind |-> nodes[node].kind])>>,
                              Shallower(r.w)))

\* SIRWriter.nemokern_node(node)
nemokern_node(nodes, skip_nodes, node, w) ==
    VisitAll(nodes, skip_nodes, nodes[nodes[node].children[1]].children, 1, w, <<>>)

\* SIRWriter.nemoloop_node(loop_node)
nemoloop_node(nodes, skip_nodes, loop_node, w) ==
    IF ~ SingleChild(nodes, loop_node, "NemoLoop") THEN Raised("VisitorError", w)
    ELSE
    LET j_loop == nodes[nodes[loop_node].children[4]].children[1]
    IN IF ~ SingleChild(nodes, j_loop, "NemoLoop") THEN Raised("VisitorError", w)
    ELSE
    LET i_loop == nodes[nodes[j_loop].children[4]].children[1]
    IN IF ~ SingleChild(nodes, i_loop, "NemoKern") THEN Raised("VisitorError", w)
    ELSE
    LET kern == nodes[nodes[i_loop].children[4]].children[1]
        k_interval == create_make_interval(nodes, loop_node, "jpk")
        j_interval == create_make_interval(nodes, j_loop, "jpj")
        i_interval == create_make_interval(nodes, i_loop, "jpi")
    IN IF k_interval.err # "none" THEN Raised(k_interval.err, w)
       ELSE IF j_interval.err # "none" THEN Raised(j_interval.err, w)
       ELSE IF i_interval.err # "none" THEN Raised(i_interval.err, w)
       ELSE Bind(nemokern_node(nodes, skip_nodes, kern, Deeper(w)),
                 LAMBDA r :
                    IF r.err # "none" THEN r
                    ELSE Emitted(
                           <<Line("k_interval", w.depth, [interval |-> k_interval.interval]),
                             Line("body_ast", w.depth, [body |-> r.out])>>
                           \o <<Line("vertical_region_fns.append", r.w.depth - 1,
                                     [IRange |-> i_interval.interval,
                                      JRange |-> j_interval.interval])>>,
                           Shallower(r.w)))

\* SIRWriter.nemoinvokeschedule_node(node)
nemoinvokeschedule_node(nodes, skip_nodes, node, w) ==
    Bind(VisitAll(nodes, skip_nodes, nodes[node].children, 1, w,
                  <<Line("stencil_name", 0, [name |-> "psyclone"])>>),
         LAMBDA r :
            IF r.err # "none" THEN r
            ELSE
            LET fields == FieldDecls(nodes, SetOrder(r.w.field_names, r.w.hash_order),
                                     1, r.w)
                scalars == ScalarDecls(nodes, SetOrder(r.w.scalar_names, r.w.hash_order),
                                       1, r.w)
            IN IF fields.err # "none" THEN Raised(fields.err, r.w)
               ELSE IF scalars.err # "none" THEN Raised(scalars.err, r.w)
               ELSE Emitted(r.out \o
                            <<Line("make_sir", r.w.depth,
                                   [functions |-> fields.functions \o scalars.functions]),
                              Line("print (code)", 0, [code |-> "dawn4py.compile"])>>,
                            r.w))

\* SIRWriter.assignment_node(node)
assignment_node(nodes, skip_nodes, node, w) ==
    Bind(Visit(nodes, skip_nodes, nodes[node].children[1], Deeper(w)),
         LAMBDA lhs :
            IF lhs.err # "none" THEN lhs
            ELSE Bind(Visit(nodes, skip_nodes, nodes[node].children[2], lhs.w),
                 LAMBDA rhs :
                    IF rhs.err # "none" THEN rhs
                    ELSE Emitted(<<Line("make_assignment_stmt", rhs.w.depth - 1,
                                        [lhs |-> lhs.out, rhs |-> rhs.out])>>,
                                 Shallower(rhs.w))))

\* SIRWriter.binaryoperation_node(node)
binaryoperation_node(nodes, skip_nodes, node, w) ==
    Bind(Visit(nodes, skip_nodes, nodes[node].children[1], Deeper(w)),
         LAMBDA lhs :
            IF lhs.err # "none" THEN lhs
            ELSE IF nodes[node].info.operator \notin DOMAIN binary_operators
            THEN Raised("VisitorError", lhs.w)
            ELSE Bind(Visit(nodes, skip_nodes, nodes[node].children[2], lhs.w),
                 LAMBDA rhs :
                    IF rhs.err # "none" THEN rhs
                    ELSE Emitted(<<Line("make_binary_operator", rhs.w.depth - 1,
                                        [lhs |-> lhs.out,
                                         oper |-> binary_operators[nodes[node].info.operator],
                                         rhs |-> rhs.out])>>,
                                 Shallower(rhs.w))))

\* SIRWriter.reference_node(node)
reference_node(nodes, skip_nodes, node, w) ==
    IF nodes[node].children # <<>> THEN Raised("VisitorError", w)
    ELSE Emitted(<<Line("make_field_access_expr", w.depth,
                        [name |-> nodes[node].info.name])>>,
                 [w EXCEPT !.scalar_names = @ \cup {nodes[node].info.name},
                           !.scalars = DictSet(@, nodes[node].info.name, nodes[node])])

\* SIRWriter.arrayreference_node(node)
arrayreference_node(nodes, skip_nodes, node, w) ==
    LET stencil == gen_stencil(nodes, node)
    IN IF stencil.err # "none" THEN Raised(stencil.err, w)
       ELSE Emitted(<<Line("make_field_access_expr", w.depth,
                           [name |-> nodes[node].info.name, stencil |-> stencil.dims])>>,
                    [w EXCEPT !.field_names = @ \cup {nodes[node].info.name},
                              !.fields = DictSet(@, nodes[node].info.name, nodes[node])])

\* SIRWriter.literal_node(node)
literal_node(nodes, skip_nodes, node, w) ==
    IF nodes[node].info.datatype \notin DOMAIN TYPE_MAP_TO_SIR
    THEN Raised("VisitorError", w)
    ELSE Emitted(<<Line("make_literal_access_expr", w.depth,
                        [value |-> <<"", nodes[node].info.value>>,
                         datatype |-> TYPE_MAP_TO_SIR[nodes[node].info.datatype]])>>, w)

\* SIRWriter.unaryoperation_node(node)
unaryoperation_node(nodes, skip_nodes, node, w) ==
    LET child == nodes[node].children[1]
    IN IF nodes[node].info.operator # "MINUS" THEN Raised("VisitorError", w)
       ELSE IF nodes[child].kind = "Literal"
       THEN IF nodes[child].info.datatype \notin {"REAL", "INTEGER"}
            THEN Raised("VisitorError", w)
            ELSE Emitted(<<Line("make_literal_access_expr", w.depth,
                                [value |-> <<"-", nodes[child].info.value>>,
                                 datatype |-> TYPE_MAP_TO_SIR[nodes[child].info.datatype]])>>,
                         w)
       ELSE Bind(Visit(nodes, skip_nodes, child, Deeper(w)),
                 LAMBDA rhs :
                    IF rhs.err # "none" THEN rhs
                    ELSE Emitted(<<Line("make_binary_operator", rhs.w.depth - 1,
                                        [lhs |-> <<Line("make_literal_access_expr", w.depth + 1,
                                                        [value |-> <<"-", "1.0">>,
                                                         datatype |-> TYPE_MAP_TO_SIR["REAL"]])>>,
                                         oper |-> "*",
                                         rhs |-> rhs.out])>>,
                                 Shallower(rhs.w)))

\* SIRWriter.schedule_node(node)
schedule_node(nodes, skip_nodes, node, w) ==
    VisitAll(nodes, skip_nodes, nodes[node].children, 1, w, <<>>)

\* SIRWriter.ifblock_node(node)
ifblock_node(nodes, skip_nodes, node, w) ==
    Bind(Visit(nodes, skip_nodes, nodes[node].children[1], w),
         LAMBDA cond :
            IF cond.err # "none" THEN cond
            ELSE Bind(Visit(nodes, skip_nodes, nodes[node].children[2], cond.w),
                 LAMBDA then_r :
                    IF then_r.err # "none" THEN then_r
                    ELSE IF Len(nodes[node].children) < 3
                    THEN Emitted(<<Line("make_if_stmt", then_r.w.depth,
                                        [cond |-> cond.out, then_part |-> then_r.out,
                                         else_part |-> <<>>, has_else |-> FALSE])>>,
                                 then_r.w)
                    ELSE Bind(Visit(nodes, skip_nodes, nodes[node].children[3], then_r.w),
                         LAMBDA else_r :
                            IF else_r.err # "none" THEN else_r
                            ELSE Emitted(<<Line("make_if_stmt", else_r.w.depth,
                                                [cond |-> cond.out, then_part |-> then_r.out,
                                                 else_part |-> else_r.out,
                                                 has_else |-> TRUE])>>,
                                         else_r.w))))

\* PSyIRVisitor._visit(node): call the visitor method found for the node.
Visit(nodes, skip_nodes, node, w) ==
    LET handler == SirHandler(nodes[node].kind)
    IN CASE handler = "nemoinvokeschedule_node" ->
                nemoinvokeschedule_node(nodes, skip_nodes, node, w)
         [] handler = "nemoloop_node" -> nemoloop_node(nodes, skip_nodes, node, w)
         [] handler = "nemokern_node" -> nemokern_node(nodes, skip_nodes, node, w)
         [] handler = "assignment_node" -> assignment_node(nodes, skip_nodes, node, w)
         [] handler = "binaryoperation_node" ->
                binaryoperation_node(nodes, skip_nodes, node, w)
         [] handler = "unaryoperation_node" ->
                unaryoperation_node(nodes, skip_nodes, node, w)
         [] handler = "arrayreference_node" ->
                arrayreference_node(nodes, skip_nodes, node, w)
         [] handler = "reference_node" -> reference_node(nodes, skip_nodes, node, w)
         [] handler = "literal_node" -> literal_node(nodes, skip_nodes, node, w)
         [] handler = "ifblock_node" -> ifblock_node(nodes, skip_nodes, node, w)
         [] handler = "schedule_node" -> schedule_node(nodes, skip_nodes, node, w)
         [] handler = "node_node" -> node_node(nodes, skip_nodes, node, w)

\* The nodes of the fixtures: a Literal, a Reference to a local scalar, an
\* ArrayReference to an array argument with one dimension per index, and a
\* NemoLoop.
SirLiteral(parent, value, datatype) ==
    Obj("Literal", parent, <<>>, [value |-> value, datatype |-> datatype])

SirReference(parent, name) ==
    Obj("Reference", parent, <<>>,
        [name |-> name,
         symbol |-> [is_array |-> FALSE, shape |-> 0, is_local |-> TRUE]])

SirArrayReference(parent, children, name) ==
    Obj("ArrayReference", parent, children,
        [name |-> name,
         symbol |-> [is_array |-> TRUE, shape |-> Len(children), is_local |-> FALSE]])

SirNemoLoop(parent, children, variable) ==
    Obj("NemoLoop", parent, children, [variable |-> variable])

\* do jk = 1, jpk ; do jj = 1, jpj ; do ji = 1, jpi around one kernel, as
\* the first statement of an invoke.
SirLoopNest(invoke_children, kernel_children) ==
    <<Obj("NemoInvokeSchedule", None, invoke_children, [name |-> "invoke"]),
      SirNemoLoop(1, <<3, 4, 5, 6>>, "jk"),
      SirLiteral(2, "1", "INTEGER"),
      SirReference(2, "jpk"),
      SirLiteral(2, "1", "INTEGER"),
      Obj("Schedule", 2, <<7>>, [name |-> "loop_body"]),
      SirNemoLoop(6, <<8, 9, 10, 11>>, "jj"),
      SirLiteral(7, "1", "INTEGER"),
      SirReference(7, "jpj"),
      SirLiteral(7, "1", "INTEGER"),
      Obj("Schedule", 7, <<12>>, [name |-> "loop_body"]),
      SirNemoLoop(11, <<13, 14, 15, 16>>, "ji"),
      SirLiteral(12, "1", "INTEGER"),
      SirReference(12, "jpi"),
      SirLiteral(12, "1", "INTEGER"),
      Obj("Schedule", 12, <<17>>, [name |-> "loop_body"]),
      Obj("NemoKern", 16, <<18>>, [name |-> "kern"]),
      Obj("Schedule", 17, kernel_children, [name |-> "kernel"])>>

\* invoke:  a(ji,jj,jk) = b(ji,jj,jk-1) + s   inside the triple loop nest.
SirStencilTree ==
    SirLoopNest(<<2>>, <<19>>) \o
    <<Obj("Assignment", 18, <<20, 24>>, [annotations |-> <<>>]),
      SirArrayReference(19, <<21, 22, 23>>, "a"),
      SirReference(20, "ji"),
      SirReference(20, "jj"),
      SirReference(20, "jk"),
      Obj("BinaryOperation", 19, <<25, 31>>, [operator |-> "ADD"]),
      SirArrayReference(24, <<26, 27, 28>>, "b"),
      SirReference(25, "ji"),
      SirReference(25, "jj"),
      Obj("BinaryOperation", 25, <<29, 30>>, [operator |-> "SUB"]),
      SirReference(28, "jk"),
      SirLiteral(28, "1", "INTEGER"),
      SirReference(24, "s")>>

\* invoke:  s = b(ji,jj,jk) ; a(ji,jj,jk) = -s   inside the triple loop nest.
SirScalarFirstTree ==
    SirLoopNest(<<2>>, <<19, 25>>) \o
    <<Obj("Assignment", 18, <<20, 21>>, [annotations |-> <<>>]),
      SirReference(19, "s"),
      SirArrayReference(19, <<22, 23, 24>>, "b"),
      SirReference(21, "ji"),
      SirReference(21, "jj"),
      SirReference(21, "jk"),
      Obj("Assignment", 18, <<26, 30>>, [annotations |-> <<>>]),
      SirArrayReference(25, <<27, 28, 29>>, "a"),
      SirReference(26, "ji"),
      SirReference(26, "jj"),
      SirReference(26, "jk"),
      Obj("UnaryOperation", 25, <<31>>, [operator |-> "MINUS"]),
      SirReference(30, "s")>>

\* invoke:  a Return statement next to the loop nest, and a CodeBlock around
\* two references as the only statement of the kernel.
SirUnsupportedTree ==
    SirLoopNest(<<2, 25>>, <<19>>) \o
    <<Obj("CodeBlock", 18, <<20, 21>>, [annotations |-> <<>>]),
      SirReference(19, "s"),
      SirArrayReference(19, <<22, 23, 24>>, "a"),
      SirReference(21, "ji"),
      SirReference(21, "jj"),
      SirReference(21, "jk"),
      Obj("Return", 1, <<>>, [annotations |-> <<>>])>>

\* invoke:  if (s > 0.0) then a(ji,jj,jk) = 1.0 else b(ji,jj,jk) = -1.0
\* inside the triple loop nest.
SirIfTree ==
    SirLoopNest(<<2>>, <<19>>) \o
    <<Obj("IfBlock", 18, <<20, 23, 30>>, [annotations |-> <<>>]),
      Obj("BinaryOperation", 19, <<21, 22>>, [operator |-> "GT"]),
      SirReference(20, "s"),
      SirLiteral(20, "0.0", "REAL"),
      Obj("Schedule", 19, <<24>>, [name |-> "if_body"]),
      Obj("Assignment", 23, <<25, 29>>, [annotations |-> <<>>]),
      SirArrayReference(24, <<26, 27, 28>>, "a"),
      SirReference(25, "ji"),
      SirReference(25, "jj"),
      SirReference(25, "jk"),
      SirLiteral(24, "1.0", "REAL"),
      Obj("Schedule", 19, <<31>>, [name |-> "else_body"]),
      Obj("Assignment", 30, <<32, 36>>, [annotations |-> <<>>]),
      SirArrayReference(31, <<33, 34, 35>>, "b"),
      SirReference(32, "ji"),
      SirReference(32, "jj"),
      SirReference(32, "jk"),
      Obj("UnaryOperation", 31, <<37>>, [operator |-> "MINUS"]),
      SirLiteral(36, "1.0", "REAL")>>

\* invoke:  a doubly nested loop, which the backend does not translate.
SirBadNestTree ==
    <<Obj("NemoInvokeSchedule", None, <<2>>, [name |-> "invoke"]),
      SirNemoLoop(1, <<3, 4, 5, 6>>, "jj"),
      SirLiteral(2, "1", "INTEGER"),
      SirReference(2, "jpj"),
      SirLiteral(2, "1", "INTEGER"),
      Obj("Schedule", 2, <<7>>, [name |-> "loop_body"]),
      SirNemoLoop(6, <<8, 9, 10, 11>>, "ji"),
      SirLiteral(7, "1", "INTEGER"),
      SirReference(7, "jpi"),
      SirLiteral(7, "1", "INTEGER"),
      Obj("Schedule", 7, <<12>>, [name |-> "loop_body"]),
      Obj("NemoKern", 11, <<13>>, [name |-> "kern"]),
      Obj("Schedule", 12, <<14>>, [name |-> "kernel"]),
      Obj("Assignment", 13, <<15, 18>>, [annotations |-> <<>>]),
      SirArrayReference(14, <<16, 17>>, "a"),
      SirReference(15, "ji"),
      SirReference(15, "jj"),
      SirLiteral(14, "true", "BOOLEAN")>>

\* invoke:  the stencil assignment inside do jk = 1, n ; ... , a loop
\* whose upper bound is not the name the backend expects.
SirBadBoundTree == [SirStencilTree EXCEPT ![4] = SirReference(2, "n")]

SirTrees ==
    {SirStencilTree, SirScalarFirstTree, SirUnsupportedTree, SirIfTree,
     SirBadNestTree, SirBadBoundTree}

\* The names the fixtures give to arrays and scalars, and the orders in
\* which a process may iterate over a set of them.
SirNames == {"a", "b", "s"}

HashOrders ==
    {order \in [1..Cardinality(SirNames) -> SirNames] :
        \A name \in SirNames : \E k \in DOMAIN order : order[k] = name}

\* The nodes a caller hands to the writer: an invoke, a loop or a statement.
SirTargets(nodes) ==
    {n \in 1..Len(nodes) :
        nodes[n].kind \in {"NemoInvokeSchedule", "NemoLoop", "Assignment",
                           "IfBlock", "CodeBlock", "Return"}}

\* writer(node): PSyIRVisitor.__call__ hands the node to _visit; the fields
\* of the writer are as the visit leaves them, also when it raises.
SwCall ==
    /\ sw_calls < MaxEmits
    /\ \E nodes \in SirTrees : \E node \in SirTargets(nodes) :
         \E r \in {Visit(nodes, sw_skip_nodes, node,
                         SirWriterState(sw_depth, sw_field_names, sw_fields,
                                        sw_scalar_names, sw_scalars,
                                        sw_hash_order))} :
            /\ sw_nodes' = nodes
            /\ sw_depth' = r.w.depth
            /\ sw_field_names' = r.w.field_names
            /\ sw_fields' = r.w.fields
            /\ sw_scalar_names' = r.w.scalar_names
            /\ sw_scalars' = r.w.scalars
            /\ sw_ret' = [op |-> "__call__", node |-> node, err |-> r.err,
                          out |-> r.out]
    /\ sw_calls' = sw_calls + 1
    /\ UNCHANGED <<sw_skip_nodes, sw_hash_order>>
    /\ UNCHANGED sw_rest

\* SIRWriter(skip_nodes): a new writer, in a process whose sets iterate in
\* some order.
SwInit ==
    /\ sw_skip_nodes \in BOOLEAN
    /\ sw_hash_order \in HashOrders
    /\ sw_depth = 0
    /\ sw_field_names = {}
    /\ sw_fields = EmptyDict
    /\ sw_scalar_names = {}
    /\ sw_scalars = EmptyDict
    /\ sw_nodes = <<>>
    /\ sw_calls = 0
    /\ sw_ret = [op |-> "none", node |-> None, err |-> "none", out |-> <<>>]

\* The writer while another component runs.
SwIdle ==
    /\ sw_skip_nodes = FALSE
    /\ sw_hash_order = <<>>
    /\ sw_depth = 0
    /\ sw_field_names = {}
    /\ sw_fields = EmptyDict
    /\ sw_scalar_names = {}
    /\ sw_scalars = EmptyDict
    /\ sw_nodes = <<>>
    /\ sw_calls = 0
    /\ sw_ret = [op |-> "none", node |-> None, err |-> "none", out |-> <<>>]

SwNext == SwCall

(***************************************************************************)
(* The algorithm layer: AlgorithmInvokeCall.lower_to_language_level.       *)
(***************************************************************************)
\* The symbol of "call invoke(...)", the symbol of the PSy-layer routine
\* that replaces the invoke with the given index, and the symbol of the
\* PSy-layer container.
InvokeSymbol == [name |-> "invoke"]
PsyRoutineSymbol(index) == [name |-> "invoke", index |-> index]
PsyContainerSymbol == [name |-> "psy_alg"]

\* node.scope: the node itself or its nearest ancestor with a symbol table.
scope(nodes, node) ==
    IF isinstance(nodes[node].kind, "ScopingNode") THEN node
    ELSE ancestor(nodes, node, "ScopingNode")

RECURSIVE find_symbol_table(_, _, _)
\* symbol.find_symbol_table(node): the scoping node whose table holds the
\* symbol, searched from the scope of the node outwards; None if no table
\* holds it.
find_symbol_table(nodes, symbol, node) ==
    IF node = None THEN None
    ELSE IF /\ isinstance(nodes[node].kind, "ScopingNode")
            /\ symbol \in nodes[node].info.symbol_table
    THEN node
    ELSE find_symbol_table(nodes, symbol, nodes[node].parent)

\* invoke.lower_to_language_level() without the test for other invokes:
\* the invoke symbol is removed at the first lowering.
lower_to_language_level_always_removes(nodes, node) ==
    LET table == scope(nodes, node)
        with_symbols == [nodes EXCEPT ![table].info.symbol_table =
                            @ \cup {PsyContainerSymbol,
                                    PsyRoutineSymbol(nodes[node].info.index)}]
        call == Len(nodes) + 1
        made == with_symbols \o
                    <<Obj("Call", None, <<>>,
                          [routine |-> PsyRoutineSymbol(nodes[node].info.index)])>>
    IN Bind(replace_with(made, node, call),
       LAMBDA replaced :
         IF replaced.err # "none" THEN replaced
         ELSE Bind(find_symbol_table(replaced.nodes, InvokeSymbol, call),
              LAMBDA invoke_table :
                IF invoke_table # None
                THEN [err |-> "none",
                      nodes |-> [replaced.nodes EXCEPT
                                    ![invoke_table].info.symbol_table =
                                        @ \ {InvokeSymbol}]]
                ELSE replaced))

\* invoke.lower_to_language_level(): the symbols of the PSy-layer container
\* and routine are added to the table of the invoke's scope, a Call to the
\* routine replaces the invoke, and the invoke symbol is removed from the
\* table that holds it if no AlgorithmInvokeCall is left below the node of
\* that table.
lower_to_language_level(nodes, node) ==
    LET table == scope(nodes, node)
        with_symbols == [nodes EXCEPT ![table].info.symbol_table =
                            @ \cup {PsyContainerSymbol,
                                    PsyRoutineSymbol(nodes[node].info.index)}]
        call == Len(nodes) + 1
        made == with_symbols \o
                    <<Obj("Call", None, <<>>,
                          [routine |-> PsyRoutineSymbol(nodes[node].info.index)])>>
    IN Bind(replace_with(made, node, call),
       LAMBDA replaced :
         IF replaced.err # "none" THEN replaced
         ELSE Bind(find_symbol_table(replaced.nodes, InvokeSymbol, call),
              LAMBDA invoke_table :
                IF /\ invoke_table # None
                   /\ walk(replaced.nodes, invoke_table, {"AlgorithmInvokeCall"}) = <<>>
                THEN [err |-> "none",
                      nodes |-> [replaced.nodes EXCEPT
                                    ![invoke_table].info.symbol_table =
                                        @ \ {InvokeSymbol}]]
                ELSE replaced))

\* The nodes of "subroutine <name>" at position `first` of the tree: `direct`
\* invokes in its body and, if `looped`, one more invoke moved into the
\* body of a loop at the end of the routine.  The routine's table holds the
\* invoke symbol; the invokes are numbered from `index` on.
AlgRoutine(first, parent, direct, looped, index) ==
    LET loop == first + direct + 1
    IN <<Obj("Routine", parent,
             [k \in 1..(direct + (IF looped THEN 1 ELSE 0)) |-> first + k],
             [symbol_table |-> {InvokeSymbol}])>>
       \o [k \in 1..direct |->
              Obj("AlgorithmInvokeCall", first, <<>>, [index |-> index + k - 1])]
       \o (IF ~ looped THEN <<>>
           ELSE <<Obj("Loop", first, <<loop + 1, loop + 2, loop + 3, loop + 4>>,
                      [variable |-> "i"]),
                  Obj("Literal", loop, <<>>, [value |-> "0"]),
                  Obj("Literal", loop, <<>>, [value |-> "1"]),
                  Obj("Literal", loop, <<>>, [value |-> "1"]),
                  Obj("Schedule", loop, <<loop + 5>>, [symbol_table |-> {}]),
                  Obj("AlgorithmInvokeCall", loop + 4, <<>>,
                      [index |-> index + direct])>>)

\* The shapes of a routine: at least one invoke.
RoutineShapes ==
    {shape \in [direct : 0..MaxDirectInvokes, looped : BOOLEAN] :
        shape.direct > 0 \/ shape.looped}

\* "module mod1" with two routines; the module's table holds an invoke
\* symbol of its own or not.
AlgModule(first_shape, second_shape, module_has_invoke) ==
    LET alg1 == AlgRoutine(2, 1, first_shape.direct, first_shape.looped, 0)
        alg2 == AlgRoutine(2 + Len(alg1), 1, second_shape.direct, second_shape.looped,
                           first_shape.direct + (IF first_shape.looped THEN 1 ELSE 0))
    IN <<Obj("Container", None, <<2, 2 + Len(alg1)>>,
             [symbol_table |-> IF module_has_invoke THEN {InvokeSymbol} ELSE {}])>>
       \o alg1 \o alg2

AlgTrees ==
    {AlgRoutine(1, None, shape.direct, shape.looped, 0) : shape \in RoutineShapes}
    \cup {AlgModule(first_shape, second_shape, module_has_invoke) :
            first_shape \in {shape \in RoutineShapes : shape.direct <= 1},
            second_shape \in {shape \in RoutineShapes : shape.direct <= 1},
            module_has_invoke \in BOOLEAN}

\* The invokes of the tree that are not lowered yet.
AlgInvokes == walk(tx_nodes, 1, {"AlgorithmInvokeCall"})

\* invoke.lower_to_language_level() on an invoke of the tree.
AlgLower(node) ==
    /\ \E r \in {lower_to_language_level(tx_nodes, node)} :
          /\ tx_nodes' = r.nodes
          /\ tx_ret' = [trans |-> "lower_to_language_level", node |-> node,
                        err |-> r.err, before |-> [nodes |-> tx_nodes]]
    /\ tx_applied' = tx_applied + 1
    /\ UNCHANGED <<tx_symbols, tx_files>>
    /\ UNCHANGED tx_rest

\* An algorithm tree as the front end delivers it.
AlgInit ==
    /\ tx_nodes \in AlgTrees
    /\ tx_symbols = [names |-> <<>>, argument_list |-> <<>>]
    /\ tx_files = <<>>
    /\ tx_applied = 0
    /\ tx_ret = [trans |-> "none", err |-> "none"]

AlgNext ==
    \E k \in 1..Len(AlgInvokes) : AlgLower(AlgInvokes[k])

(***************************************************************************)
(* The specifications, one per component.                                  *)
(***************************************************************************)
InitMaths == SmInit /\ DtIdle /\ SyIdle /\ TrIdle /\ TxIdle /\ LpIdle /\ SwIdle

SpecMaths == InitMaths /\ [][SmNext]_vars

InitDep == DtInit /\ SmIdle /\ SyIdle /\ TrIdle /\ TxIdle /\ LpIdle /\ SwIdle

SpecDep == InitDep /\ [][DtNext]_vars

InitSym == SyInit /\ SmIdle /\ DtIdle /\ TrIdle /\ TxIdle /\ LpIdle /\ SwIdle

SpecSym == InitSym /\ [][SyNext]_vars

InitTree == TrInit /\ SmIdle /\ DtIdle /\ SyIdle /\ TxIdle /\ LpIdle /\ SwIdle

SpecTree == InitTree /\ [][TrNext]_vars

InitTrans == TxInit /\ SmIdle /\ DtIdle /\ SyIdle /\ TrIdle /\ LpIdle /\ SwIdle

SpecTrans == InitTrans /\ [][TxNext]_vars

InitLoop == LpInit /\ SmIdle /\ DtIdle /\ SyIdle /\ TrIdle /\ TxIdle /\ SwIdle

SpecLoop == InitLoop /\ [][LpNext]_vars

InitSir == SwInit /\ SmIdle /\ DtIdle /\ SyIdle /\ TrIdle /\ TxIdle /\ LpIdle

SpecSir == InitSir /\ [][SwNext]_vars

InitSymObj ==
    SyObjInit /\ SmIdle /\ DtIdle /\ TrIdle /\ TxIdle /\ LpIdle /\ SwIdle

SpecSymObj == InitSymObj /\ [][SyObjNext]_vars

InitAlg == AlgInit /\ SmIdle /\ DtIdle /\ SyIdle /\ TrIdle /\ LpIdle /\ SwIdle

SpecAlg == InitAlg /\ [][AlgNext]_vars

(***************************************************************************)
(* Properties of the symbolic maths singleton.                             *)
(***************************************************************************)

\* C8: after any sequence of SymbolicMaths.get() calls, every call returned
\* the identical instance, the one the first call created; its strategy is
\* the one chosen at the first call (exact when sympy was importable then,
\* the fallback otherwise) and _instance still holds that object.
C8_SingletonFixed ==
    /\ (sm_gets = <<>>) => (sm_instance = None /\ sm_heap = <<>>)
    /\ \A k \in 1..Len(sm_gets) :
          /\ sm_gets[k].ret # None
          /\ sm_gets[k].ret = sm_gets[1].ret
          /\ sm_instance = sm_gets[1].ret
          /\ sm_heap[sm_gets[k].ret] =
                IF sm_gets[1].importable THEN "SymbolicMathsSympy"
                                         ELSE "SymbolicMathsSimple"

\* Three calls have been made, and sympy stopped being importable after the
\* first one.
C8_Witness ==
    /\ Len(sm_gets) >= 3
    /\ sm_gets[1].importable
    /\ ~ sm_gets[2].importable
    /\ sm_ret.op = "get"

\* C9: the engine offers equal(expr1, expr2) under both strategies; equal is
\* reflexive and symmetric, and false when one argument is None.
C9_EqualReflexiveSymmetric ==
    (sm_ret.op = "equal") =>
        /\ sm_ret.ret \in {"True", "False"}
        /\ (sm_ret.e1 = sm_ret.e2 /\ sm_ret.e1.k # "none") => sm_ret.ret = "True"
        /\ (sm_ret.e1.k = "none" \/ sm_ret.e2.k = "none") => sm_ret.ret = "False"
        /\ sm_ret.ret = CallMethod(sm_heap[sm_ret.on], "equal", sm_ret.e2, sm_ret.e1)

(***************************************************************************)
(* Properties of the dependency tools.                                     *)
(***************************************************************************)

\* Every access of the analysed variable is a read.
AllReads ==
    \A k \in 1..Len(dt_var_info.all_accesses) :
        dt_var_info.all_accesses[k].access_type = "READ"

\* C10: for a variable whose accesses are all reads, is_array_parallelisable
\* and is_scalar_parallelisable return true, whatever the loop variable and
\* the index expressions are, and the call records no message.
C10_ReadOnlyParallelisable ==
    (AllReads /\ dt_ret.op \in {"is_array_parallelisable", "is_scalar_parallelisable"}) =>
        /\ dt_ret.ret = TRUE
        /\ dt_messages = dt_ret.before
        /\ \A k \in 1..Len(dt_messages) : dt_messages[k].sev # "Warning"

\* is_array_parallelisable has answered for a variable that is only read,
\* through two accesses of which none uses the loop variable.
C10_Witness ==
    /\ AllReads
    /\ Len(dt_var_info.all_accesses) = 2
    /\ dt_ret.op = "is_array_parallelisable"
    /\ \A k \in 1..2 : dt_var_info.all_accesses[k].indices = << <<E1>> >>

\* The number of accesses of the analysed variable that are a WRITE.
RECURSIVE WriteCount(_, _)
WriteCount(accesses, k) ==
    IF k > Len(accesses) THEN 0
    ELSE (IF accesses[k].access_type = "WRITE" THEN 1 ELSE 0)
         + WriteCount(accesses, k + 1)

\* C11 as stated: is_scalar_parallelisable returns false for every scalar
\* of which exactly one access is a write, whatever other accesses it has.
C11_WrittenOnceFalse ==
    (dt_ret.op = "is_scalar_parallelisable"
     /\ WriteCount(dt_var_info.all_accesses, 1) = 1) =>
        dt_ret.ret = FALSE

\* C11: is_scalar_parallelisable returns false, and appends the warning
\* "only written once", for every scalar whose single access writes it; a
\* scalar with one write among several accesses is parallelisable exactly
\* when its first access is a WRITE, and is otherwise reported as a
\* reduction.
C11_OnlyAccessIsWrite ==
    (dt_ret.op = "is_scalar_parallelisable" /\ ~ is_read_only(dt_var_info)) =>
        /\ (Len(dt_var_info.all_accesses) = 1) =>
              /\ dt_ret.ret = FALSE
              /\ dt_messages = Append(dt_ret.before,
                     [sev |-> "Warning", msg |-> "written_once",
                      var |-> dt_var_info.var_name])
        /\ (Len(dt_var_info.all_accesses) > 1) =>
              /\ dt_ret.ret = (dt_var_info.all_accesses[1].access_type = "WRITE")
              /\ dt_ret.ret => dt_messages = dt_ret.before
              /\ ~ dt_ret.ret =>
                     dt_messages = Append(dt_ret.before,
                         [sev |-> "Warning", msg |-> "read_first_reduction",
                          var |-> dt_var_info.var_name])

\* is_scalar_parallelisable has answered false for a scalar whose only
\* access is a write.
C11_Witness ==
    /\ dt_ret.op = "is_scalar_parallelisable"
    /\ Len(dt_var_info.all_accesses) = 1
    /\ dt_var_info.all_accesses[1].access_type = "WRITE"
    /\ dt_var_info.all_accesses[1].indices = << <<>> >>
    /\ dt_ret.ret = FALSE

\* C23: for a scalar with an access that writes it, is_scalar_parallelisable
\* returns false when the scalar has a single access; with more accesses it
\* returns true exactly when the first access is a WRITE, and for a first
\* access of kind READ or READWRITE it returns false and records one more
\* message, a warning about a reduction.
C23_FirstAccessDecides ==
    (dt_ret.op = "is_scalar_parallelisable" /\ ~ is_read_only(dt_var_info)) =>
        LET first == dt_var_info.all_accesses[1].access_type
        IN IF Len(dt_var_info.all_accesses) = 1 THEN ~ dt_ret.ret
           ELSE /\ dt_ret.ret <=> (first = "WRITE")
                /\ (first \in {"READ", "READWRITE"}) =>
                      /\ ~ dt_ret.ret
                      /\ Len(dt_messages) = Len(dt_ret.before) + 1
                      /\ dt_messages[Len(dt_messages)].sev = "Warning"
                      /\ dt_messages[Len(dt_messages)].msg = "read_first_reduction"

\* is_scalar_parallelisable has rejected, as a reduction, a scalar whose
\* first access is a READWRITE and whose second access is a WRITE.
C23_Witness ==
    /\ dt_ret.op = "is_scalar_parallelisable"
    /\ Len(dt_var_info.all_accesses) = 2
    /\ dt_var_info.all_accesses[1].access_type = "READWRITE"
    /\ dt_var_info.all_accesses[2].access_type = "WRITE"
    /\ ~ dt_ret.ret
    /\ dt_messages # <<>>

\* The index expressions of the analysed variable that use the loop
\* variable, with their (component, dimension) positions, in the order of
\* the accesses.
LoopVarTriples ==
    SelectSeq(AllTriples(dt_var_info.all_accesses, 1),
              LAMBDA t : dt_loop_variable \in reference_accesses(t.expr))

\* Two of these index expressions are not mathematically equal.
UnequalPair ==
    \E a, b \in 1..Len(LoopVarTriples) :
        ~ math_equal(LoopVarTriples[a].expr, LoopVarTriples[b].expr)

\* All uses of the loop variable are in one index position.
SameDimension ==
    \A a, b \in 1..Len(LoopVarTriples) :
        LoopVarTriples[a].pair = LoopVarTriples[b].pair

\* The message the last call has appended.
LastMessage == dt_messages[Len(dt_messages)]

\* C12 as stated: for a written array with two unequal index expressions
\* that use the loop variable, is_array_parallelisable returns false and
\* records a warning naming both index expressions.
C12_UnequalIndicesNamed ==
    (dt_ret.op = "is_array_parallelisable" /\ ~ is_read_only(dt_var_info)
     /\ UnequalPair) =>
        /\ dt_ret.ret = FALSE
        /\ Len(dt_messages) = Len(dt_ret.before) + 1
        /\ LastMessage.sev = "Warning"
        /\ LastMessage.msg = "written_with_indices"

\* C12: for a written array with two unequal index expressions that use
\* the loop variable, is_array_parallelisable returns false and appends
\* one warning.  When all uses of the loop variable are in the same index
\* position the warning names the first of these expressions and the first
\* one not equal to it; when they are in different positions the warning
\* names the two positions.
C12_UnequalIndicesRejected ==
    (dt_ret.op = "is_array_parallelisable" /\ ~ is_read_only(dt_var_info)
     /\ UnequalPair) =>
        /\ dt_ret.ret = FALSE
        /\ Len(dt_messages) = Len(dt_ret.before) + 1
        /\ SubSeq(dt_messages, 1, Len(dt_ret.before)) = dt_ret.before
        /\ LastMessage.sev = "Warning"
        /\ LastMessage.var = dt_var_info.var_name
        /\ SameDimension =>
              /\ LastMessage.msg = "written_with_indices"
              /\ LastMessage.first = LoopVarTriples[1].expr
              /\ ~ math_equal(LastMessage.first, LastMessage.second)
              /\ \E k \in 2..Len(LoopVarTriples) :
                    /\ LastMessage.second = LoopVarTriples[k].expr
                    /\ \A m \in 2..(k - 1) :
                          math_equal(LoopVarTriples[1].expr,
                                     LoopVarTriples[m].expr)
        /\ ~ SameDimension =>
              /\ LastMessage.msg = "different_index"
              /\ LastMessage.first # LastMessage.second
              /\ \E a, b \in 1..Len(LoopVarTriples) :
                    /\ LastMessage.first = LoopVarTriples[a].pair
                    /\ LastMessage.second = LoopVarTriples[b].pair

\* is_array_parallelisable has answered for a(j) = ... a(j-1) ... in a loop
\* over j.
C12_Witness ==
    /\ dt_ret.op = "is_array_parallelisable"
    /\ dt_loop_variable = "j"
    /\ Len(dt_var_info.all_accesses) = 2
    /\ dt_var_info.all_accesses[1] =
           [access_type |-> "READ", indices |-> << <<Ejm1>> >>]
    /\ dt_var_info.all_accesses[2] =
           [access_type |-> "WRITE", indices |-> << <<Ej>> >>]
    /\ dt_ret.ret = FALSE
    /\ LastMessage.msg = "written_with_indices"

\* Some access of the analysed variable has no index expression that
\* references the loop variable.
AccessWithoutLoopVariable ==
    \E k \in 1..Len(dt_var_info.all_accesses) :
        \A t \in 1..Len(DimTriples(dt_var_info.all_accesses[k].indices, 1, 1)) :
            dt_loop_variable \notin reference_accesses(
                DimTriples(dt_var_info.all_accesses[k].indices, 1, 1)[t].expr)

\* C13: for a written array of which some access has no index expression
\* that references the loop variable, is_array_parallelisable returns false
\* and appends a warning, not an error.
C13_AccessWithoutLoopVariableRejected ==
    (dt_ret.op = "is_array_parallelisable" /\ ~ is_read_only(dt_var_info)
     /\ AccessWithoutLoopVariable) =>
        /\ dt_ret.ret = FALSE
        /\ Len(dt_messages) = Len(dt_ret.before) + 1
        /\ LastMessage.sev = "Warning"

(***************************************************************************)
(* Properties of the dependency tools on a loop nest.                      *)
(***************************************************************************)

\* The last call was can_loop_be_parallelised(loop) with
\* only_nested_loops=True on an object built with the allow-list {'lat'},
\* for the 'lat' loop `loop` of a nest whose other loop is a 'lon' loop.
LatCall(loop) ==
    /\ lp_ret.op = "can_loop_be_parallelised"
    /\ lp_loop_types = {"lat"}
    /\ Len(lp_nodes) = 12
    /\ lp_ret.args.loop = loop
    /\ lp_ret.args.only_nested_loops
    /\ lp_nodes[loop].info.loop_type = "lat"
    /\ lp_nodes[9 - loop].info.loop_type = "lon"

\* The accesses of the statement inside the loop nest.
NestAccesses == lp_nodes[12].info.accesses

\* All accesses inside the nest are reads of array elements.
OnlyArrayReads ==
    \A k \in 1..Len(NestAccesses) :
        /\ NestAccesses[k].access_type = "READ"
        /\ NestAccesses[k].indices # << <<>> >>

\* Some access inside the nest writes an array element through an index
\* that does not use the variable of the 'lat' loop.
WriteOmitsLoopVariable ==
    \E k \in 1..Len(NestAccesses) :
        /\ NestAccesses[k].access_type = "WRITE"
        /\ NestAccesses[k].indices = << <<E1, E1>> >>

\* No index of an access to the array a uses the variable of the 'lat' loop.
NoAccessUsesLoopVariable ==
    \A k \in 1..Len(NestAccesses) :
        NestAccesses[k].signature.var_name = "a" =>
            NestAccesses[k].indices = << <<E1, E1>> >>

C14_WitnessReadOnly ==
    /\ LatCall(2)
    /\ NestAccesses = <<Access("a", "READ", << <<Ei, Ej>> >>)>>
    /\ lp_ret.ret = TRUE

\* The accesses of the node list of the last call, in execution order.
CallAccesses == VariablesAccessInfo(lp_nodes, lp_ret.args.node_list)

\* The names of the variables whose first access in that list is not a
\* write.
FirstAccessNotWrite ==
    {CallAccesses[k].signature.var_name : k \in
        {m \in 1..Len(CallAccesses) :
            /\ CallAccesses[m].access_type # "WRITE"
            /\ \A e \in 1..(m - 1) :
                  CallAccesses[e].signature # CallAccesses[m].signature}}

\* The names of the variables with a write access in that list.
WrittenSomewhere ==
    {CallAccesses[k].signature.var_name : k \in
        {m \in 1..Len(CallAccesses) :
            CallAccesses[m].access_type \in {"WRITE", "READWRITE"}}}

\* The names a returned list holds, and whether each is held once.
ListedNames(list) == {list[k].value : k \in 1..Len(list)}

NoDuplicates(list) ==
    \A a, b \in 1..Len(list) : list[a] = list[b] => a = b

\* C15: get_input_parameters returns exactly the variables whose first
\* access in execution order is not a WRITE, get_output_parameters exactly
\* the variables with at least one write access, each once;
\* get_in_out_parameters returns these two lists; for x = 1; y = x + z the
\* inputs are {z} and the outputs {x, y}.
C15_InputOutputPartition ==
    /\ lp_ret.op = "get_input_parameters" =>
          /\ ListedNames(lp_ret.ret) = FirstAccessNotWrite
          /\ NoDuplicates(lp_ret.ret)
    /\ lp_ret.op = "get_output_parameters" =>
          /\ ListedNames(lp_ret.ret) = WrittenSomewhere
          /\ NoDuplicates(lp_ret.ret)
    /\ lp_ret.op = "get_in_out_parameters" =>
          /\ ListedNames(lp_ret.ret.inputs) = FirstAccessNotWrite
          /\ ListedNames(lp_ret.ret.outputs) = WrittenSomewhere
          /\ NoDuplicates(lp_ret.ret.inputs)
          /\ NoDuplicates(lp_ret.ret.outputs)
    /\ (lp_nodes = BlockTree /\ lp_ret.op # "none"
        /\ "node_list" \in DOMAIN lp_ret.args
        /\ lp_ret.args.node_list = <<2, 3>>) =>
          /\ lp_ret.op = "get_input_parameters" =>
                ListedNames(lp_ret.ret) = {"z"}
          /\ lp_ret.op = "get_output_parameters" =>
                ListedNames(lp_ret.ret) = {"x", "y"}
          /\ lp_ret.op = "get_in_out_parameters" =>
                /\ ListedNames(lp_ret.ret.inputs) = {"z"}
                /\ ListedNames(lp_ret.ret.outputs) = {"x", "y"}

\* get_input_parameters has answered for the block x = 1; y = x + z.
C15_Witness ==
    /\ lp_nodes = BlockTree
    /\ lp_ret.op = "get_input_parameters"
    /\ lp_ret.args.node_list = <<2, 3>>
    /\ Len(lp_ret.ret) = 1

\* C16: after any call on a DependencyTools object the message list holds
\* only the messages the most recent call has produced.
\* What the last call of can_loop_be_parallelised answers for its loop when
\* it stops at the first variable that fails (FALSE) or tests them all.
C27_Answer(test_all_variables) ==
    can_loop_be_parallelised(lp_nodes, lp_loop_types, lp_ret.args.loop,
                             lp_ret.args.loop_variable,
                             lp_ret.args.only_nested_loops, test_all_variables)

\* C27: can_loop_be_parallelised returns the same boolean whether it stops
\* at the first variable that fails or tests all variables, and the
\* messages of the call that stops are the first messages of the call that
\* tests them all.
C27_SameAnswerPrefixMessages ==
    (lp_ret.op = "can_loop_be_parallelised" /\ lp_ret.err = "none") =>
        LET fail_fast   == C27_Answer(FALSE)
            collect_all == C27_Answer(TRUE)
        IN /\ lp_ret.ret = (IF lp_ret.args.test_all_variables
                            THEN collect_all.ret ELSE fail_fast.ret)
           /\ lp_messages = (IF lp_ret.args.test_all_variables
                             THEN collect_all.messages ELSE fail_fast.messages)
           /\ fail_fast.ret = collect_all.ret
           /\ Len(fail_fast.messages) <= Len(collect_all.messages)
           /\ fail_fast.messages =
                  SubSeq(collect_all.messages, 1, Len(fail_fast.messages))

\* A call tested all variables of a loop in which two variables fail: the
\* call that stops at the first leaves fewer messages.
C27_Witness ==
    /\ lp_ret.op = "can_loop_be_parallelised"
    /\ lp_ret.err = "none"
    /\ lp_ret.args.test_all_variables
    /\ ~ lp_ret.ret
    /\ Len(C27_Answer(FALSE).messages) >= 1
    /\ Len(C27_Answer(FALSE).messages) < Len(lp_messages)

C16_MessagesOfLastCall ==
    (lp_ret.op # "none") => lp_messages = lp_ret.produced

(***************************************************************************)
(* Properties of symbols and symbol tables.                                *)
(***************************************************************************)

\* The names of the symbols of a table, given as a sequence of references.
NamesOf(table) == {sy_symbols[table[k]].name : k \in 1..Len(table)}

PublicInOrigin(module, name) ==
    IF ~ sy_origin[module].found THEN {}
    ELSE {sy_origin[module].symbol_table[k] :
             k \in {h \in 1..Len(sy_origin[module].symbol_table) :
                      LET sym == sy_symbols[sy_origin[module].symbol_table[h]]
                      IN sym.name = name /\ sym.visibility = "PUBLIC"}}

\* What one resolve_deferred call on the symbol `self` must have done.
ResolveDeferredStep(self) ==
    LET sym == sy_symbols[self]
        iface == sy_ifaces[sym.interface]
    IN  /\ sy_table' = sy_table /\ sy_origin' = sy_origin /\ sy_ifaces' = sy_ifaces
        /\ Len(sy_symbols') >= Len(sy_symbols)
        /\ \A r \in 1..Len(sy_symbols) : sy_symbols'[r] = sy_symbols[r]
        /\ IF iface.kind # "Global"
           THEN sy_ret'.err = "none" /\ sy_ret'.ref = self /\ sy_symbols' = sy_symbols
           ELSE LET pubs == PublicInOrigin(iface.container_symbol, sym.name)
                IN IF pubs = {}
                   THEN sy_ret'.err = "SymbolError" /\ sy_symbols' = sy_symbols
                   ELSE /\ sy_ret'.err = "none"
                        /\ sy_ret'.ref \notin 1..Len(sy_symbols)
                        /\ sy_ret'.ref \in 1..Len(sy_symbols')
                        /\ \E p \in pubs :
                              sy_symbols'[sy_ret'.ref] =
                                  [cls |-> sy_symbols[p].cls,
                                   name |-> sym.name,
                                   datatype |-> sy_symbols[p].datatype,
                                   interface |-> sym.interface,
                                   visibility |-> sym.visibility]

\* C7: resolve_deferred on a symbol with an import interface returns a new
\* symbol with the class and type of the public symbol of that name in the
\* origin container's table and the interface and visibility of the
\* original, or fails with SymbolError when there is no such public symbol;
\* on any other symbol it returns the symbol itself; the original symbol,
\* the other symbols and the tables are not changed.
C7_ResolveDeferred ==
    [][(sy_ret'.op = "resolve_deferred" /\ sy_vars' # sy_vars)
          => ResolveDeferredStep(sy_ret'.self)]_vars

\* resolve_deferred has returned a new symbol for a private imported symbol
\* whose definition in some_mod is a public DataSymbol.
C7_Witness ==
    /\ sy_ret.op = "resolve_deferred"
    /\ sy_ret.err = "none"
    /\ sy_ret.ref # sy_ret.self
    /\ sy_symbols[sy_ret.self].visibility = "PRIVATE"
    /\ sy_symbols[sy_ret.self].cls = "Symbol"
    /\ sy_symbols[sy_ret.ref].cls = "DataSymbol"

(***************************************************************************)
(* Properties of the node tree.                                            *)
(***************************************************************************)

\* The nodes that list n as a child.
ListedBy(n) ==
    {p \in NodeRefs : \E k \in 1..Len(tr_nodes[p].children) : tr_nodes[p].children[k] = n}

ChildrenValid ==
    \A p \in NodeRefs : \A k \in 1..Len(tr_nodes[p].children) :
        _validate_child(tr_nodes[p].kind, k - 1, tr_nodes[tr_nodes[p].children[k]].kind)

\* An item that is not valid at the position it was offered for was refused.
InvalidRejected ==
    (/\ tr_ret.op \in {"insert", "addchild", "replace_with"}
     /\ tr_ret.index >= 0
     /\ ~ _validate_child(tr_ret.parent, tr_ret.index, tr_ret.item))
        => tr_ret.err # "none"

\* The Loop that create has just returned has start, stop, step and body.
CreatedLoopComplete ==
    (tr_ret.op = "create" /\ tr_ret.err = "none") =>
        /\ tr_nodes[tr_ret.node].kind = "Loop"
        /\ Len(tr_nodes[tr_ret.node].children) = 4

C1_NoPartialMutation ==
    (tx_ret.trans # "none" /\ tx_ret.err # "none") =>
        /\ tx_nodes = tx_ret.before.nodes
        /\ tx_symbols = tx_ret.before.symbols

\* C2: apply(node, options) calls validate(node, options) before it does
\* anything else (symbol creation, driver writing, node insertion); when
\* validate raises for the node and options, apply raises that error and the
\* tree is node for node what it was.
C2_ValidateFirst ==
    (tx_ret.trans # "none") =>
        /\ tx_ret.log # <<>>
        /\ tx_ret.log[1] = "validate"
        /\ (tx_ret.validate # "none") =>
              /\ tx_ret.err = tx_ret.validate
              /\ tx_nodes = tx_ret.before.nodes

\* C3: apply with an options mapping that holds a key the transformation
\* does not recognise raises, and the tree is unchanged.
C3_UnknownOptionRejected ==
    (tx_ret.trans # "none" /\ "bogus" \in tx_ret.options) =>
        /\ tx_ret.err # "none"
        /\ tx_nodes = tx_ret.before.nodes
        /\ tx_symbols = tx_ret.before.symbols

\* Does an index expression of an access of the variable use the name?
IndexUses(var_info, name) ==
    \E k \in 1..Len(var_info.all_accesses) :
        \E c \in 1..Len(var_info.all_accesses[k].indices) :
            \E d \in 1..Len(var_info.all_accesses[k].indices[c]) :
                name \in reference_accesses(var_info.all_accesses[k].indices[c][d])

\* C21: is_variable_array called with a loop variable raises InternalError
\* when it gets no access information, and otherwise answers true only if
\* an index expression of an access of the variable uses the loop variable.
C21_ArrayOnlyIfLoopVariableIndexed ==
    (lp_ret.op = "is_variable_array" /\ lp_ret.args.loop_variable # NoneStr) =>
        IF lp_ret.args.access_information = NoAccessInformation
        THEN lp_ret.err = "InternalError"
        ELSE /\ lp_ret.err = "none"
             /\ lp_ret.ret => IndexUses(lp_ret.args.access_information,
                                        lp_ret.args.loop_variable)

\* C25: GOConstLoopBoundsTrans, applied to a schedule it accepts that has a
\* field argument, raises TransformationError exactly when some loop holds
\* a kernel whose index offset is not a supported one; a loop that holds no
\* kernel causes no error.
C25_ErrorOnlyForUnsupportedKernelOffset ==
    (/\ tx_ret.trans = "GOConstLoopBoundsTrans"
     /\ tx_ret.validate = "none"
     /\ \E k \in 1..Len(tx_ret.before.symbols.argument_list) :
            tx_ret.before.symbols.argument_list[k].datatype = "r2d_field") =>
        LET nodes == tx_ret.before.nodes
            loops == walk(nodes, tx_ret.node, {"GOLoop"})
            go_kernels(k) == walk(nodes, loops[k], {"GOKern"})
        IN (tx_ret.err = "TransformationError") <=>
              \E k \in 1..Len(loops) :
                 /\ go_kernels(k) # <<>>
                 /\ nodes[go_kernels(k)[1]].info.index_offset \notin SUPPORTED_OFFSETS

(***************************************************************************)
(* Properties of ACCUpdateTrans.                                           *)
(***************************************************************************)

\* The last call was ACCUpdateTrans.apply on a Schedule with options the
\* transformation accepts.
UpdatesApplied ==
    tx_ret.trans = "ACCUpdateTrans" /\ tx_ret.validate = "none"

IsUpdate(n, direction) ==
    /\ tx_nodes[n].kind = "ACCUpdateDirective"
    /\ tx_nodes[n].info.direction = direction

\* The node holds an accelerator region: a parallel or kernels directive
\* or a Call.
HasRegion(n) == walk(tx_nodes, n, _acc_region_nodes) # <<>>

\* A statement that runs on the host.
IsHostStatement(n) ==
    /\ tx_nodes[n].kind \notin {"ACCUpdateDirective", "ACCEnterDataDirective"}
    /\ ~ HasRegion(n)

RECURSIVE Uncovered(_)
\* The schedules whose statements are not inside an accelerator region:
\* the schedule handed to apply, and the branches of an IfBlock of such a
\* schedule that holds a region.
Uncovered(sched) ==
    /\ isinstance(tx_nodes[sched].kind, "Schedule")
    /\ \/ sched = tx_ret.node
       \/ /\ tx_nodes[sched].parent # None
          /\ tx_nodes[tx_nodes[sched].parent].kind = "IfBlock"
          /\ HasRegion(tx_nodes[sched].parent)
          /\ tx_nodes[tx_nodes[sched].parent].parent # None
          /\ Uncovered(tx_nodes[tx_nodes[sched].parent].parent)

\* The children lo..hi of the schedule are a maximal run of host
\* statements.
HostRun(sched, lo, hi) ==
    LET c == tx_nodes[sched].children
    IN /\ lo <= hi
       /\ \A k \in lo..hi : IsHostStatement(c[k])
       /\ lo = 1 \/ ~ IsHostStatement(c[lo - 1])
       /\ hi = Len(c) \/ ~ IsHostStatement(c[hi + 1])

\* The variables a node list reads before it writes them, and those it
\* writes, loop variables left out.
InputsOf(node_list) ==
    LET accesses == VariablesAccessInfo(tx_nodes, node_list)
    IN {accesses[k].signature.var_name : k \in
           {m \in 1..Len(accesses) :
               /\ accesses[m].access_type # "WRITE"
               /\ \A e \in 1..(m - 1) :
                     accesses[e].signature # accesses[m].signature}} \ _loop_vars

OutputsOf(node_list) ==
    LET accesses == VariablesAccessInfo(tx_nodes, node_list)
    IN {accesses[k].signature.var_name : k \in
           {m \in 1..Len(accesses) :
               accesses[m].access_type \in {"WRITE", "READWRITE"}}} \ _loop_vars

\* Child `at` of the schedule is immediately preceded by an 'update host'
\* directive for the variable: only such directives stand in between.
HostUpdateBefore(sched, at, var_name) ==
    LET c == tx_nodes[sched].children
    IN \E p \in 1..(at - 1) :
          /\ \A q \in p..(at - 1) : IsUpdate(c[q], "host")
          /\ tx_nodes[c[p]].info.sym = var_name

\* Child `at` of the schedule is immediately followed by an 'update
\* device' directive for the variable.
DeviceUpdateAfter(sched, at, var_name) ==
    LET c == tx_nodes[sched].children
    IN \E p \in (at + 1)..Len(c) :
          /\ \A q \in (at + 1)..p : IsUpdate(c[q], "device")
          /\ tx_nodes[c[p]].info.sym = var_name

\* Every maximal run of host statements of the schedule has its updates
\* around it.
Bracketed(sched) ==
    LET c == tx_nodes[sched].children
    IN \A lo, hi \in 1..Len(c) :
          HostRun(sched, lo, hi) =>
              /\ \A v \in InputsOf(SubSeq(c, lo, hi)) :
                    HostUpdateBefore(sched, lo, v)
              /\ \A v \in OutputsOf(SubSeq(c, lo, hi)) :
                    DeviceUpdateAfter(sched, hi, v)

\* An update directive stands where the transformation puts them: in an
\* uncovered schedule, a host update before and a device update after a
\* host statement, or a host update before an IfBlock.
WellPlaced(n) ==
    LET sched == tx_nodes[n].parent
        c == tx_nodes[sched].children
        at == position(tx_nodes, n) + 1
    IN /\ sched # None
       /\ Uncovered(sched)
       /\ IsUpdate(n, "host") =>
             \E p \in (at + 1)..Len(c) :
                /\ \A q \in (at + 1)..(p - 1) : IsUpdate(c[q], "host")
                /\ IsHostStatement(c[p]) \/ tx_nodes[c[p]].kind = "IfBlock"
       /\ IsUpdate(n, "device") =>
             \E p \in 1..(at - 1) :
                /\ \A q \in (p + 1)..(at - 1) : IsUpdate(c[q], "device")
                /\ IsHostStatement(c[p])

\* C17: after ACCUpdateTrans.apply(schedule) every maximal run of sibling
\* host statements, at any depth, is immediately preceded by an 'update
\* host' directive for each of its inputs and immediately followed by an
\* 'update device' directive for each of its outputs, and no update
\* directive stands anywhere else.
C17_HostRunsBracketed ==
    UpdatesApplied =>
        /\ \A sched \in 1..Len(tx_nodes) : Uncovered(sched) => Bracketed(sched)
        /\ \A n \in 1..Len(tx_nodes) :
              tx_nodes[n].kind = "ACCUpdateDirective" => WellPlaced(n)

\* C18: when an IfBlock holds an accelerator region, the host update for
\* the variables its condition reads stands immediately before the
\* IfBlock, and the host code inside each branch has its own updates
\* inside that branch, computed from the statements of the branch alone.
C18_IfBlockBranches ==
    UpdatesApplied =>
        \A sched \in 1..Len(tx_nodes) : Uncovered(sched) =>
            \A k \in 1..Len(tx_nodes[sched].children) :
                LET child == tx_nodes[sched].children[k]
                IN (tx_nodes[child].kind = "IfBlock" /\ HasRegion(child)) =>
                      /\ \A v \in InputsOf(<<tx_nodes[child].children[1]>>) :
                            HostUpdateBefore(sched, k, v)
                      /\ \A b \in 2..Len(tx_nodes[child].children) :
                            /\ Bracketed(tx_nodes[child].children[b])
                            /\ \A n \in 1..Len(tx_nodes) :
                                  (tx_nodes[n].kind = "ACCUpdateDirective"
                                   /\ tx_nodes[n].parent = tx_nodes[child].children[b])
                                      => WellPlaced(n)

(***************************************************************************)
(* Properties of the SIR writer.                                           *)
(***************************************************************************)
RECURSIVE Flatten(_)
\* Every line of a generated text in the order of the text, the lines
\* inside a statement or an expression after the line that opens it.
Flatten(out) ==
    IF out = <<>> THEN <<>>
    ELSE LET line == Head(out)
             inside(part) == IF part \in DOMAIN line THEN Flatten(line[part]) ELSE <<>>
         IN <<line>> \o inside("cond") \o inside("then_part") \o inside("else_part")
                     \o inside("lhs") \o inside("rhs") \o inside("body")
                     \o Flatten(Tail(out))

\* The writer before a call.
WriterBefore ==
    SirWriterState(sw_depth, sw_field_names, sw_fields, sw_scalar_names,
                   sw_scalars, sw_hash_order)

\* The placeholder lines of a node of the given kind.
Placeholder(text, kind, depth) == [text |-> text, kind |-> kind, indent |-> depth]

HasPlaceholder(out) ==
    \E k \in 1..Len(Flatten(out)) : Flatten(out)[k].text = "[ start ]"

\* C19: a writer built with skip_nodes=False raises VisitorError when it is
\* handed a node whose class has no visitor method of its own, and when
\* its walk reaches one; a writer built with skip_nodes=True returns for
\* such a node the line "[ <Kind> start ]", then what the visits of the
\* children return, in the order of the children, then "[ <Kind> end ]";
\* no call changes the mode the writer was built with.
C19_UnsupportedNode ==
    [][(sw_calls' = sw_calls + 1) =>
          LET nodes == sw_nodes'
              node == sw_ret'.node
              kind == nodes[node].kind
              children == VisitAll(nodes, TRUE, nodes[node].children, 1,
                                   Deeper(WriterBefore), <<>>)
              lenient == Visit(nodes, TRUE, node, WriterBefore)
          IN /\ sw_skip_nodes' = sw_skip_nodes
             /\ (SirHandler(kind) = "node_node" /\ ~ sw_skip_nodes) =>
                    /\ sw_ret'.err = "VisitorError"
                    /\ sw_ret'.out = <<>>
             /\ (SirHandler(kind) = "node_node" /\ sw_skip_nodes
                   /\ children.err = "none") =>
                    /\ sw_ret'.err = "none"
                    /\ sw_ret'.out =
                          <<Placeholder("[ start ]", kind, sw_depth)>>
                          \o children.out
                          \o <<Placeholder("[ end ]", kind, sw_depth)>>
             /\ (~ sw_skip_nodes /\ lenient.err = "none"
                   /\ HasPlaceholder(lenient.out)) =>
                    sw_ret'.err = "VisitorError"
       ]_vars

\* A lenient writer has served its second call, for a CodeBlock with two
\* children: the text is the two placeholder lines around two accesses.
C19_Witness ==
    /\ sw_calls = 2
    /\ sw_skip_nodes
    /\ sw_nodes[sw_ret.node].kind = "CodeBlock"
    /\ Len(sw_nodes[sw_ret.node].children) = 2
    /\ sw_ret.err = "none"
    /\ Len(sw_ret.out) = 4

RECURSIVE FirstOccurrences(_, _)
\* The names of a sequence, each at its first occurrence.
FirstOccurrences(names, seen) ==
    IF names = <<>> THEN <<>>
    ELSE IF Head(names) \in seen THEN FirstOccurrences(Tail(names), seen)
    ELSE <<Head(names)>> \o FirstOccurrences(Tail(names), seen \cup {Head(names)})

\* The names the body of a generated text accesses, in the order of their
\* first access.
FirstReferenced(out) ==
    LET accesses == SelectSeq(Flatten(out),
                              LAMBDA line : line.text = "make_field_access_expr")
    IN FirstOccurrences([k \in 1..Len(accesses) |-> accesses[k].name], {})

\* The names the make_field declarations of a generated text declare, in
\* the order of the declarations.
DeclaredFieldNames(out) ==
    LET make_sir == SelectSeq(out, LAMBDA line : line.text = "make_sir")
    IN [k \in 1..Len(make_sir[1].functions) |-> make_sir[1].functions[k].name]

\* C20: the text a writer returns for an invoke declares, after the body,
\* each array or scalar name that the walk referenced exactly once, in the
\* order in which the walk first referenced the names.
C20_DeclarationsInFirstReferencedOrder ==
    (/\ sw_ret.op = "__call__"
     /\ sw_ret.err = "none"
     /\ sw_nodes[sw_ret.node].kind = "NemoInvokeSchedule") =>
        /\ sw_ret.out[Len(sw_ret.out) - 1].text = "make_sir"
        /\ DeclaredFieldNames(sw_ret.out) = FirstReferenced(sw_ret.out)

(***************************************************************************)
(* Properties of symbols and their interfaces.                             *)
(***************************************************************************)
\* How many of is_local, is_argument, is_global and is_unresolved are true
\* of a symbol.
InterfaceKinds(ifaces, sym) ==
    Cardinality({p \in {"is_local", "is_argument", "is_global", "is_unresolved"} :
        CASE p = "is_local" -> is_local(ifaces, sym)
          [] p = "is_argument" -> is_argument(ifaces, sym)
          [] p = "is_global" -> is_global(ifaces, sym)
          [] p = "is_unresolved" -> is_unresolved(ifaces, sym)})

\* C22: after a construction and after any interface assignment exactly one
\* of is_local, is_argument, is_global and is_unresolved is true of every
\* symbol; an assignment of something that is not a SymbolInterface raises
\* TypeError and leaves the interface as it was.
C22_ExactlyOneInterfaceKind ==
    [][/\ \A sym \in 1..Len(sy_symbols') :
             InterfaceKinds(sy_ifaces', sy_symbols'[sym]) = 1
       /\ (sy_ret'.op = "interface" /\ ~ is_symbol_interface(sy_ret'.value)) =>
             /\ sy_ret'.err = "TypeError"
             /\ sy_symbols' = sy_symbols
             /\ sy_ifaces' = sy_ifaces]_vars

\* C30: changing the access mode through the interface of one symbol leaves
\* the interface of every other symbol as it was, also when one of the two
\* is a copy() of the other.
C30_CopySharesNoState ==
    [][(sy_ret'.op = "access") =>
          \A other \in 1..Len(sy_symbols) :
             other # sy_ret'.self =>
                sy_ifaces'[sy_symbols'[other].interface]
                   = sy_ifaces[sy_symbols[other].interface]]_vars

(***************************************************************************)
(* Properties of the SIR writer: failures and reuse.                       *)
(***************************************************************************)
\* C24: every call of the writer that fails ends with an error raised to
\* the caller, whatever fails - a node, an operator, a literal type, the
\* loop nest or a loop bound; no call ends the process, and no failing call
\* returns text.
C24_FailuresAreRaised ==
    (sw_ret.op = "__call__") =>
        /\ sw_ret.err # "SystemExit"
        /\ (sw_ret.err # "none") => sw_ret.out = <<>>

\* C28: the depth of a writer after a call is its depth before the call,
\* also when the call raises an error inside a nested node.
C28_DepthRestored ==
    [][(sw_calls' = sw_calls + 1) => sw_depth' = sw_depth]_vars

\* A writer as its constructor leaves it, in the process of this writer.
FreshWriter ==
    SirWriterState(0, {}, EmptyDict, {}, EmptyDict, sw_hash_order)

\* C29: a call of a writer that has served other calls returns the text
\* that a new writer returns for the same node.
C29_SameTextAsFreshWriter ==
    [][(sw_calls' = sw_calls + 1 /\ sw_ret'.err = "none") =>
          sw_ret'.out = Visit(sw_nodes', sw_skip_nodes, sw_ret'.node, FreshWriter).out
      ]_vars

(***************************************************************************)
(* Properties of the algorithm layer.                                      *)
(***************************************************************************)
\* The routines of the tree.
AlgRoutines == walk(tx_nodes, 1, {"Routine"})

C26_WitnessLast ==
    /\ tx_ret.trans = "lower_to_language_level"
    /\ tx_applied >= 2
    /\ AlgInvokes = <<>>
    /\ \A k \in 1..Len(AlgRoutines) :
          InvokeSymbol \notin tx_nodes[AlgRoutines[k]].info.symbol_table

====
